---- MODULE Spec2Model ----
(***************************************************************************)
(* State-machine model of the keep-ecdsa operator node: the ethereum block *)
(* counter (pkg/chain/eth/ethereum/blockcounter.go: WatchBlocks,           *)
(* receiveBlocks, subscribeBlocks, createBlockCounter), the                *)
(* initialization of a TSS key-generation session                          *)
(* (GenerateThresholdSigner, InitializeKeyGeneration, generatePartiesIDs), *)
(* the run of key-generation and signing sessions (GenerateKey, sign,      *)
(* KeyGenSync, SigningSync) and the conversion of the signature            *)
(* (convertSignatureTSStoECDSA).                                           *)
(*                                                                         *)
(* Specifications:                                                         *)
(*   Spec, FairSpec   the block counter under arbitrary head notifications *)
(*   ScenarioSpec     the counter fed one height at a time, one waiter and *)
(*                    one observer (specification, section 8)              *)
(*   SubSpec, FairSubSpec  the counter fed by subscribeBlocks              *)
(*   TssSpec          initialization of a key-generation session           *)
(*   SessionSpec, FairSessionSpec  the members of two keeps running their  *)
(*                    sessions: initialization, barrier, start, outcome    *)
(*   ConvertSpec      convertSignatureTSStoECDSA on any signature data     *)
(*   SignSpec         the same on the signature data the party produces    *)
(*   KeepSpec, BondSpec, BondingSpec, FindSpec, RewardsSpec, AllocSpec       *)
(*                    the contracts: ECDSAKeep, the keep's bond, KeepBonding,*)
(*                    ECDSAKeepRewards                                       *)
(*   InboundSpec, LifecycleSpec  the network bridge and the keep lifecycle  *)
(*   HeadSpec         the block counter with stale head notifications       *)
(*   LocalSpec        the local chain (LocalChain.CreateKeep)               *)
(*   UniSpec          the unicast channel of the local network provider     *)
(***************************************************************************)
EXTENDS Integers, Sequences, FiniteSets, TLC

(***************************************************************************)
(* Bounds of the model.                                                    *)
(***************************************************************************)
\* The startup block of the counter and the highest block the ledger reports.
StartHeight == 0
MaxHeight == 3
\* Callers of the counter: watchers plus waiters.
MaxClients == 2
\* Goroutines running the subscribe closure that can exist at a time.
MaxSubs == 2
\* Longest member list of a group.
MaxMembers == 3
\* Width in bits of Go's int and uint (64 or 32 in the program).
IntWidth == 3
\* Members of the larger of the two keeps whose sessions run concurrently.
MaxParties == 2
\* Longest byte string of a signature component.
MaxBytes == 2

Heights == 0..MaxHeight
WatcherIds == 1..MaxClients
WaiterIds == 1..MaxClients
SubIds == 1..MaxSubs

VARIABLES
    latestBlockHeight,   \* ebc.latestBlockHeight
    waiters,             \* ebc.waiters: height -> list of waiter channels
    watchers,            \* ebc.watchers: list of *watcher
    pc,                  \* position of the receiveBlocks goroutine
    receivedBlockHeight, \* receiveBlocks local
    unseenBlockNumber,   \* receiveBlocks loop variable (copied to `height`)
    watchersCopy,        \* receiveBlocks local copy of ebc.watchers
    watcherIdx,          \* position of the range over the copy
    watcherObj,          \* per watcher: its context, its channel, its consumer
    waiterObj            \* per waiter channel: requested height and state

VARIABLES
    observed,            \* scenario: heights the observer received, in order
    missed               \* scenario: heights dropped for the observer, in order

VARIABLES
    retryPc,             \* subscribeBlocks: position of the retry goroutine
    subPc,               \* per subscribe goroutine: its position
    subErr,              \* per subscribe goroutine: subscription.Err() has an error
    subHeader,           \* per subscribe goroutine: header.Number being pushed
    initPc,              \* subscribeBlocks: position of its own body
    initBlock            \* subscribeBlocks: lastBlock.Number()

VARIABLES
    tssPc,               \* position of the initialization of a session
    entry,               \* the function called
    memberID,            \* argument memberID
    groupMemberIDs,      \* argument groupMemberIDs
    thresholdArg,        \* argument dishonestThreshold (uint) or threshold (int)
    threshold,           \* the int threshold the session is initialized with
    partiesIDs,          \* result of generatePartiesIDs
    party,               \* keygen.NewLocalParty has been called
    bridge,              \* state of the network bridge
    tssErr               \* the error returned, "" if none

VARIABLES
    operation,           \* per keep: the function its members call
    syncGroup,           \* counters of the WaitGroups KeyGenSync and SigningSync
    callPc,              \* per member: position in the call
    netBridge,           \* per member: state of the session's network bridge
    endChan,             \* per member: the party is sending its result on the end channel
    errChan,             \* per member: the error being sent on the error channel
    signer,              \* per member: the call returned a signer or signature
    callErr,             \* per member: the error the call returned, "" if none
    ctxCancelled         \* per member: the caller has cancelled the session

VARIABLES
    members,             \* ECDSAKeep.members
    publicKey,           \* ECDSAKeep.publicKey
    currentSigningStartBlock, \* ECDSAKeep.currentSigningStartBlock
    keepEvents,          \* events the keep has emitted, in order
    keepCall             \* the last transaction sent to the keep and its outcome

VARIABLES
    sessionGroup,        \* groupMembersIDs of the session
    bridgeMembers,       \* members the bridge was started with
    bridgeOpen,          \* the bridge is started and not closed
    forwarded,           \* messages handed to the party, in order
    lastDelivery         \* the last message delivered to the bridge and its fate

VARIABLES
    keepState,           \* per keep: position of the lifecycle manager
    disk,                \* per keep: the Signer file in the data directory
    submitCalls,         \* per keep: calls of submitPublicKey so far
    writeFailed          \* per keep: the write of the Signer has failed

VARIABLES
    pot,                 \* KeepBond.pot
    etherBalance,        \* ether held by each address
    depositors,          \* addresses that have called deposit
    bondCall             \* the last transaction sent to KeepBond and its outcome

VARIABLES
    unbondedValue,       \* KeepBonding.unbondedValue
    lockedBonds,         \* KeepBonding.lockedBonds: bond id -> amount
    bondAssignments,     \* KeepBonding.bondAssignments: (operator, holder) -> references
    bondingCall          \* the last transaction sent to KeepBonding and its outcome

VARIABLES
    creationTimes,       \* factory: creation time of the keep at each index
    blockTimestamp,      \* block.timestamp
    keepStatus,          \* per keep of the factory: active, closed or terminated
    tokenBalance,        \* token.balanceOf of the reward contract, the funder, the keeps
    totalRewards,        \* ECDSAKeepRewards.totalRewards
    unallocatedRewards,  \* ECDSAKeepRewards.unallocatedRewards
    paidOutRewards,      \* ECDSAKeepRewards.paidOutRewards
    intervalAllocations, \* ECDSAKeepRewards.intervalAllocations
    claimed,             \* ECDSAKeepRewards.claimed
    keepsByInterval,     \* ECDSAKeepRewards.keepsByInterval
    intervalKeepsProcessed, \* ECDSAKeepRewards.intervalKeepsProcessed
    processed,           \* per keep: runs of _processKeep that were not reverted
    rewardsCall,         \* the last transaction sent to the reward contract
    findArg,             \* argument of a call of _findEndpoint
    findResult           \* what the call returned

VARIABLES
    staleHead            \* a head notification not above latestBlockHeight was received

VARIABLES
    localKeeps,          \* LocalChain.keeps: address -> keep record, or none
    keepCreatedHandlers, \* LocalChain.keepCreatedHandlers
    invoked,             \* handler goroutines started: invocation -> how many
    localCall            \* the last call of the local chain and what it returned

VARIABLES
    messageHandlers,     \* unicastChannel.messageHandlers, in the order of Recv
    recvLog,             \* every handler Recv was called with
    unregistered,        \* every type UnregisterRecv was called with
    recvAfterUnregister, \* Recv was called after a call of UnregisterRecv
    handlersFired,               \* handler -> calls started by deliveries
    deliveries,          \* messages delivered to the channel
    uniCall              \* the last call of the channel and what it returned

VARIABLES
    sigPc,               \* position of the conversion
    signatureData,       \* signing.SignatureData of the party: r, s, recovery bytes
    ecdsaSignature       \* the ecdsa.Signature returned

bcVars == <<latestBlockHeight, waiters, watchers, pc, receivedBlockHeight,
            unseenBlockNumber, watchersCopy, watcherIdx, watcherObj, waiterObj>>
scVars == <<observed, missed>>
subVars == <<retryPc, subPc, subErr, subHeader, initPc, initBlock>>
tssVars == <<tssPc, entry, memberID, groupMemberIDs, thresholdArg, threshold,
             partiesIDs, party, bridge, tssErr>>

sessVars == <<operation, syncGroup, callPc, netBridge, endChan, errChan,
              signer, callErr, ctxCancelled>>
sigVars == <<sigPc, signatureData, ecdsaSignature>>
keepVars == <<members, publicKey, currentSigningStartBlock, keepEvents,
              keepCall>>

\* The contracts, the bridge's receiver and the lifecycle manager.
inVars == <<sessionGroup, bridgeMembers, bridgeOpen, forwarded, lastDelivery>>
lcVars == <<keepState, disk, submitCalls, writeFailed>>
bondVars == <<pot, etherBalance, depositors, bondCall>>
bondingVars == <<unbondedValue, lockedBonds, bondAssignments, bondingCall>>
rewVars == <<creationTimes, blockTimestamp, keepStatus, tokenBalance, totalRewards,
             unallocatedRewards, paidOutRewards, intervalAllocations, claimed,
             keepsByInterval, intervalKeepsProcessed, processed, rewardsCall,
             findArg, findResult>>
\* The state added for the local chain, the unicast channel and the record
\* of head notifications.
hdVars == <<staleHead>>
localVars == <<localKeeps, keepCreatedHandlers, invoked, localCall>>
uniVars == <<messageHandlers, recvLog, unregistered, recvAfterUnregister, handlersFired,
             deliveries, uniCall>>
lateVars == <<hdVars, localVars, uniVars>>
restVars == <<keepVars, inVars, lcVars, bondVars, bondingVars, rewVars, lateVars>>

\* Everything but the block counter.
nonBcVars == <<scVars, subVars, tssVars, sessVars, sigVars, restVars>>

vars == <<bcVars, scVars, subVars, tssVars, sessVars, sigVars, restVars>>


(***************************************************************************)
(* The contracts (solidity/contracts).  A transaction that reverts leaves  *)
(* the storage of the contract and its event log as they were; the model   *)
(* records the last transaction and the reason of its revert ("" when it   *)
(* succeeded).                                                             *)
(***************************************************************************)
\* Events a keep may have emitted.
MaxKeepEvents == 4

\* Accounts sending transactions.
Accounts == {"owner", "member1", "stranger"}

\* No keep contract is deployed.
NoKeepContract ==
    /\ members = <<>>
    /\ publicKey = ""
    /\ currentSigningStartBlock = 0
    /\ keepEvents = <<>>
    /\ keepCall = [fn |-> "none", sender |-> "none", args |-> <<>>, revert |-> ""]

\* Messages the model's bridge forwards to a party.
MaxForwarded == 2

\* No bridge has been created.
NoInbound ==
    /\ sessionGroup = <<>>
    /\ bridgeMembers = <<>>
    /\ bridgeOpen = FALSE
    /\ forwarded = <<>>
    /\ lastDelivery = [msg |-> "none", fate |-> "none"]

\* Attempts of the manager to submit a public key before it gives up.
MaxSubmitAttempts == 2
ManagedKeeps == {"keep1", "keep2"}

\* No keep has been announced to the lifecycle manager.
NoManagedKeep ==
    /\ keepState = [k \in ManagedKeeps |-> "none"]
    /\ disk = [k \in ManagedKeeps |-> "none"]
    /\ submitCalls = [k \in ManagedKeeps |-> 0]
    /\ writeFailed = [k \in ManagedKeeps |-> FALSE]

\* Width in bits of uint256 in the model, and the ether an account starts
\* with; all the ether there is stays below 2^UintWidth.
UintWidth == 3
Uint(x) == x % (2 ^ UintWidth)

\* Addresses: two operators, an account that never deposits, the KeepBond
\* and KeepBonding contracts, a contract whose fallback function reverts,
\* and a keep factory.
Operators == {"operator1", "operator2"}
Addresses == Operators \cup {"other", "KeepBond", "KeepBonding", "rejecting", "factory"}

\* No KeepBond contract is deployed.
NoKeepBond ==
    /\ pot = [a \in Addresses |-> 0]
    /\ etherBalance = [a \in Addresses |-> 0]
    /\ depositors = {}
    /\ bondCall = [fn |-> "none", sender |-> "none", args |-> <<>>, revert |-> ""]

\* References a holder may have pushed for one operator.
MaxBonds == 1
Holders == {"factory", "other"}
BondRefs == {1}
BondIDs == Operators \X Holders \X BondRefs
Assignments == Operators \X Holders

\* No KeepBonding contract is deployed.
NoKeepBonding ==
    /\ unbondedValue = [a \in Addresses |-> 0]
    /\ lockedBonds = [b \in BondIDs |-> 0]
    /\ bondAssignments = [a \in Assignments |-> <<>>]
    /\ bondingCall = [fn |-> "none", sender |-> "none", args |-> <<>>, revert |-> ""]

\* Keeps the factory has opened, and the intervals of the model.
MaxKeepCount == 4
\* The highest block.timestamp.
MaxTimestamp == 4
KeepIndexes == 0..(MaxKeepCount - 1)
Intervals == 0..3

\* The storage of a reward contract that has been deployed and not yet
\* funded.
EmptyRewards ==
    /\ totalRewards = 0
    /\ unallocatedRewards = 0
    /\ paidOutRewards = 0
    /\ intervalAllocations = <<>>
    /\ claimed = {}
    /\ keepsByInterval = [i \in Intervals |-> 0]
    /\ intervalKeepsProcessed = [i \in Intervals |-> 0]
    /\ processed = [k \in KeepIndexes |-> 0]

\* No reward contract is deployed and the factory has opened no keep.
NoRewards ==
    /\ creationTimes = <<>>
    /\ blockTimestamp = 0
    /\ keepStatus = <<>>
    /\ tokenBalance = [h \in {"rewards", "funder", "keeps"} |-> 0]
    /\ EmptyRewards
    /\ rewardsCall = [fn |-> "none", args |-> <<>>, revert |-> ""]
    /\ findArg = 0
    /\ findResult = [revert |-> "", value |-> 0]

\* No head notification has been recorded.
NoStaleHead == staleHead = FALSE

\* The local chain: the addresses keeps are created at, the handlers a node
\* registers, the member lists and digests of the events.
KeepAddresses == {1, 2}
HandlerIds == {1, 2}
MemberSets == {<<"alice">>, <<"alice", "bob">>}
LocalDigests == {1}
\* ECDSAKeepCreatedEvent{KeepAddress, Members}
KeepCreatedEvent(keepMembers) == [Members |-> keepMembers, Digest |-> 0]
\* SignatureRequestedEvent{Digest}
SignatureRequestedEvent(digest) == [Members |-> <<>>, Digest |-> digest]
LocalEvents == {KeepCreatedEvent(m) : m \in MemberSets}
                   \cup {SignatureRequestedEvent(d) : d \in LocalDigests}
Invocations == [handler : HandlerIds, keepAddress : KeepAddresses, event : LocalEvents]
NoEvent == [Members |-> <<>>, Digest |-> 0]
\* fmt.Errorf("<text> [%s]", keepAddress.String())
Errorf(text, keepAddress) == [text |-> text, address |-> keepAddress]
NoError == Errorf("", 0)
NoKeep == [exists |-> FALSE, signatureRequestedHandlers |-> {}, publicKey |-> ""]

\* initializeLocalChain: no keeps, no handlers.
EmptyLocalChain ==
    /\ localKeeps = [a \in KeepAddresses |-> NoKeep]
    /\ keepCreatedHandlers = {}
    /\ invoked = [i \in Invocations |-> 0]
    /\ localCall = [fn |-> "none", keepAddress |-> 0, handler |-> 0,
                    event |-> NoEvent, err |-> NoError]

\* The handlers of a unicast channel: net.HandleMessageFunc{Type, Handler}.
MaxHandlers == 3
HandlerFuncs == 1..MaxHandlers
HandlerTypes == {"a", "b", "z"}

\* UnicastChannelWith(peer): a channel without handlers.
NewUnicastChannel ==
    /\ messageHandlers = <<>>
    /\ recvLog = {}
    /\ unregistered = {}
    /\ recvAfterUnregister = FALSE
    /\ handlersFired = [h \in HandlerFuncs |-> 0]
    /\ deliveries = 0
    /\ uniCall = [fn |-> "none", Type |-> "", err |-> ""]

NoLate == NoStaleHead /\ EmptyLocalChain /\ NewUnicastChannel

NoContracts ==
    /\ NoKeepContract /\ NoInbound /\ NoManagedKeep /\ NoKeepBond /\ NoKeepBonding
    /\ NoRewards
    /\ NoLate
(***************************************************************************)
(* createBlockCounter: latestBlockHeight is the startup block, the waiter  *)
(* map is empty, there are no watchers, and receiveBlocks waits for the    *)
(* first value of the subscription channel.                                *)
(*                                                                         *)
(* watcherObj[w].delivered is the last height the consumer of w received   *)
(* from the channel (0: none yet; the first height processed is            *)
(* StartHeight + 1).  waiterObj[i].by tells who started the goroutine that *)
(* sends on the waiter channel: the registering call or receiveBlocks.     *)
(***************************************************************************)
NewWatcher == [created |-> FALSE, ctxErr |-> FALSE, removerDone |-> FALSE,
               closed |-> FALSE, receiving |-> FALSE, delivered |-> 0]

NewWaiter == [state |-> "none", height |-> 0, by |-> "none"]

createBlockCounter(startupBlock) ==
    /\ latestBlockHeight = startupBlock
    /\ waiters = [h \in Heights |-> <<>>]
    /\ watchers = <<>>
    /\ pc = "recv"
    /\ receivedBlockHeight = 0
    /\ unseenBlockNumber = 0
    /\ watchersCopy = <<>>
    /\ watcherIdx = 1
    /\ watcherObj = [w \in WatcherIds |-> NewWatcher]
    /\ waiterObj = [i \in WaiterIds |-> NewWaiter]

\* No observer of the scenario records anything.
NoObserver == observed = <<>> /\ missed = <<>>

\* subscribeBlocks has made its two channels and started nothing yet.
subscribeBlocks ==
    /\ retryPc = "spawn"
    /\ subPc = [s \in SubIds |-> "none"]
    /\ subErr = [s \in SubIds |-> FALSE]
    /\ subHeader = [s \in SubIds |-> 0]
    /\ initPc = "blockByNumber"
    /\ initBlock = 0

NoPartiesIDs == [thisPartyID |-> "nil", groupPartiesIDs |-> <<>>, err |-> FALSE]

\* No session is being initialized.
NoSession ==
    /\ tssPc = "none"
    /\ entry = "none"
    /\ memberID = <<>>
    /\ groupMemberIDs = <<>>
    /\ thresholdArg = 0
    /\ threshold = 0
    /\ partiesIDs = NoPartiesIDs
    /\ party = FALSE
    /\ bridge = "none"
    /\ tssErr = ""

\* The two keeps and their members: MaxParties members in keep A, one in
\* keep B.
Keeps == {"keepA", "keepB"}
SessMembers == ({"keepA"} \X (1..MaxParties)) \cup {<<"keepB", 1>>}
KeepOf(m) == m[1]
MembersOf(k) == {m \in SessMembers : KeepOf(m) = k}

\* No keep has been created: no member has been called.
NoKeeps ==
    /\ operation = [k \in Keeps |-> "GenerateThresholdSigner"]
    /\ syncGroup = [w \in {"KeyGenSync", "SigningSync"} |-> 0]
    /\ callPc = [m \in SessMembers |-> "idle"]
    /\ netBridge = [m \in SessMembers |-> "none"]
    /\ endChan = [m \in SessMembers |-> FALSE]
    /\ errChan = [m \in SessMembers |-> "none"]
    /\ signer = [m \in SessMembers |-> FALSE]
    /\ callErr = [m \in SessMembers |-> ""]
    /\ ctxCancelled = [m \in SessMembers |-> FALSE]

\* No signature is being converted.
NoSignature ==
    /\ sigPc = "none"
    /\ signatureData = [r |-> <<>>, s |-> <<>>, recovery |-> <<>>]
    /\ ecdsaSignature = [R |-> 0, S |-> 0, RecoveryID |-> 0]

Init ==
    /\ createBlockCounter(StartHeight) /\ NoObserver /\ subscribeBlocks /\ NoSession
    /\ NoKeeps /\ NoSignature /\ NoContracts

\* A panic of a goroutine ends the process: nothing runs after it.
Running == pc # "panicked"

NumClients == Cardinality({w \in WatcherIds : watcherObj[w].created})
              + Cardinality({i \in WaiterIds : waiterObj[i].state # "none"})

(***************************************************************************)
(* WatchBlocks: the new watcher is appended under the mutex; the goroutine *)
(* that removes it waits for ctx.Done().                                   *)
(***************************************************************************)
WatchBlocks(w) ==
    /\ Running
    /\ NumClients < MaxClients
    /\ ~watcherObj[w].created
    /\ \A v \in WatcherIds : v < w => watcherObj[v].created
    /\ watcherObj' = [watcherObj EXCEPT ![w].created = TRUE]
    /\ watchers' = Append(watchers, w)
    /\ UNCHANGED <<latestBlockHeight, waiters, pc, receivedBlockHeight,
                   unseenBlockNumber, watchersCopy, watcherIdx, waiterObj>>
    /\ UNCHANGED nonBcVars

\* The caller cancels the context it gave to WatchBlocks.
CancelWatch(w) ==
    /\ Running
    /\ watcherObj[w].created
    /\ ~watcherObj[w].ctxErr
    /\ watcherObj' = [watcherObj EXCEPT ![w].ctxErr = TRUE]
    /\ UNCHANGED <<latestBlockHeight, waiters, watchers, pc, receivedBlockHeight,
                   unseenBlockNumber, watchersCopy, watcherIdx, waiterObj>>
    /\ UNCHANGED nonBcVars

\* ebc.watchers[i] = ebc.watchers[len-1]; ebc.watchers = ebc.watchers[:len-1]
RemoveWatcher(ws, w) ==
    IF \E i \in 1..Len(ws) : ws[i] = w
    THEN LET i == CHOOSE j \in 1..Len(ws) : ws[j] = w /\ \A k \in 1..(j-1) : ws[k] # w
             swapped == [ws EXCEPT ![i] = ws[Len(ws)]]
         IN SubSeq(swapped, 1, Len(ws) - 1)
    ELSE ws

\* The goroutine started by WatchBlocks, after <-ctx.Done().
WatcherCancelled(w) ==
    /\ Running
    /\ watcherObj[w].ctxErr
    /\ ~watcherObj[w].removerDone
    /\ watchers' = RemoveWatcher(watchers, w)
    /\ watcherObj' = [watcherObj EXCEPT ![w].removerDone = TRUE]
    /\ UNCHANGED <<latestBlockHeight, waiters, pc, receivedBlockHeight,
                   unseenBlockNumber, watchersCopy, watcherIdx, waiterObj>>
    /\ UNCHANGED nonBcVars

(***************************************************************************)
(* The consumer of a watcher channel enters a receive on the (unbuffered)  *)
(* channel; a send of receiveBlocks succeeds only while it is there.       *)
(***************************************************************************)
ConsumerReceive(w) ==
    /\ Running
    /\ watcherObj[w].created
    /\ ~watcherObj[w].receiving
    /\ ~watcherObj[w].closed
    /\ watcherObj' = [watcherObj EXCEPT ![w].receiving = TRUE]
    /\ UNCHANGED <<latestBlockHeight, waiters, watchers, pc, receivedBlockHeight,
                   unseenBlockNumber, watchersCopy, watcherIdx, waiterObj>>
    /\ UNCHANGED nonBcVars

(***************************************************************************)
(* BlockHeightWaiter / WaitForBlockHeight.  The file under src/ declares   *)
(* the waiter map and fires it, but the registration is not part of it; it *)
(* is modelled from the specification (4.1): under the mutex, a height     *)
(* already reached is answered at once, any other is appended to           *)
(* waiters[blockNumber].                                                   *)
(***************************************************************************)
BlockHeightWaiter(i, blockNumber) ==
    /\ Running
    /\ NumClients < MaxClients
    /\ waiterObj[i].state = "none"
    /\ \A j \in WaiterIds : j < i => waiterObj[j].state # "none"
    /\ IF blockNumber <= latestBlockHeight
       THEN /\ waiterObj' = [waiterObj EXCEPT ![i] =
                                [state |-> "fired", height |-> blockNumber, by |-> "call"]]
            /\ UNCHANGED waiters
       ELSE /\ waiterObj' = [waiterObj EXCEPT ![i] =
                                [state |-> "registered", height |-> blockNumber, by |-> "none"]]
            /\ waiters' = [waiters EXCEPT ![blockNumber] = Append(@, i)]
    /\ UNCHANGED <<latestBlockHeight, watchers, pc, receivedBlockHeight,
                   unseenBlockNumber, watchersCopy, watcherIdx, watcherObj>>
    /\ UNCHANGED nonBcVars

\* WaitForBlockHeight returns: the caller receives from the goroutine that
\* sends the height on the waiter channel.
WaitForBlockHeightReturns(i) ==
    /\ Running
    /\ waiterObj[i].state = "fired"
    /\ waiterObj' = [waiterObj EXCEPT ![i].state = "woken"]
    /\ UNCHANGED <<latestBlockHeight, waiters, watchers, pc, receivedBlockHeight,
                   unseenBlockNumber, watchersCopy, watcherIdx, watcherObj>>
    /\ UNCHANGED nonBcVars

(***************************************************************************)
(* receiveBlocks.  The two critical sections of one loop iteration are one *)
(* step: the steps of the other goroutines that could fall between them    *)
(* (WatchBlocks, the removal of a watcher, BlockHeightWaiter) commute with *)
(* the copy of the watcher list or with the update of the waiter map.      *)
(* Locals that are dead at a position are reset, so that one program state *)
(* is one state of the model.                                              *)
(***************************************************************************)
FirstUnseen_Skip(latest) == latest + 2

\* for unseenBlockNumber := ebc.latestBlockHeight + 1
FirstUnseen(latest) == latest + 1

WaitersAt_NextHeight(ws, height) ==
    IF height + 1 \in DOMAIN ws THEN ws[height + 1] ELSE <<>>

\* waiters := ebc.waiters[height]
WaitersAt(ws, height) == IF height \in DOMAIN ws THEN ws[height] ELSE <<>>

NotifiedHeight_Received(unseen, received) == received

\* height := unseenBlockNumber, the value sent to waiters and watchers
NotifiedHeight(unseen, received) == unseen

CopyWatchers_None(ws) == <<>>

\* watchers := make([]*watcher, len(ebc.watchers)); copy(watchers, ebc.watchers)
CopyWatchers(ws) == ws

LoopCondition_NotEqual(unseen, received) == unseen # received

\* unseenBlockNumber <= receivedBlockHeight, the condition of the loop
LoopCondition(unseen, received) == unseen <= received

SeqToSet(s) == {s[k] : k \in 1..Len(s)}

\* block := <-ebc.subscriptionChannel, up to the first test of the loop
\* condition.  The sender of the block adds what it does itself.
ReceiveBlock(block) ==
    /\ pc = "recv"
    /\ IF \/ block = latestBlockHeight
          \/ ~LoopCondition(FirstUnseen(latestBlockHeight), block)
       THEN UNCHANGED <<pc, receivedBlockHeight, unseenBlockNumber>>
       ELSE /\ receivedBlockHeight' = block
            /\ unseenBlockNumber' = FirstUnseen(latestBlockHeight)
            /\ pc' = "loop"
    /\ UNCHANGED <<latestBlockHeight, waiters, watchers, watchersCopy,
                   watcherIdx, watcherObj, waiterObj>>

\* One iteration up to the range over the copied watchers: latestBlockHeight++,
\* the waiters of this height leave the map and a goroutine is started for each,
\* the watcher list is copied.
ProcessHeight ==
    /\ pc = "loop"
    /\ latestBlockHeight' = latestBlockHeight + 1
    /\ LET fired == SeqToSet(WaitersAt(waiters, unseenBlockNumber))
       IN waiterObj' = [i \in WaiterIds |->
              IF i \in fired THEN [waiterObj[i] EXCEPT !.state = "fired", !.by = "loop"]
              ELSE waiterObj[i]]
    /\ waiters' = [h \in Heights |-> IF h = unseenBlockNumber THEN <<>> ELSE waiters[h]]
    /\ watchersCopy' = CopyWatchers(watchers)
    /\ watcherIdx' = 1
    /\ pc' = "notify"
    /\ UNCHANGED <<watchers, receivedBlockHeight, unseenBlockNumber, watcherObj>>
    /\ UNCHANGED nonBcVars

AtWatcher(w) ==
    /\ pc = "notify"
    /\ watcherIdx <= Len(watchersCopy)
    /\ watchersCopy[watcherIdx] = w

\* watcher.ctx.Err() != nil: close(watcher.channel); continue
CloseWatcher(w) ==
    /\ AtWatcher(w)
    /\ watcherObj[w].ctxErr
    /\ ~watcherObj[w].closed
    /\ watcherObj' = [watcherObj EXCEPT ![w].closed = TRUE, ![w].receiving = FALSE]
    /\ watcherIdx' = watcherIdx + 1
    /\ UNCHANGED <<latestBlockHeight, waiters, watchers, pc, receivedBlockHeight,
                   unseenBlockNumber, watchersCopy, waiterObj>>
    /\ UNCHANGED nonBcVars

\* close of a channel that is closed already: the runtime panics.
CloseClosedWatcher(w) ==
    /\ AtWatcher(w)
    /\ watcherObj[w].ctxErr
    /\ watcherObj[w].closed
    /\ pc' = "panicked"
    /\ UNCHANGED <<latestBlockHeight, waiters, watchers, receivedBlockHeight,
                   unseenBlockNumber, watchersCopy, watcherIdx, watcherObj, waiterObj>>
    /\ UNCHANGED nonBcVars

\* select { case watcher.channel <- height: default: } on a watcher that is not
\* cancelled: the send happens if the consumer is in its receive, otherwise the
\* default branch is taken and the height is dropped for this watcher.
watcherSelect(w) ==
    /\ AtWatcher(w)
    /\ ~watcherObj[w].ctxErr
    /\ IF watcherObj[w].receiving
       THEN watcherObj' = [watcherObj EXCEPT
                ![w].delivered = NotifiedHeight(unseenBlockNumber, receivedBlockHeight),
                ![w].receiving = FALSE]
       ELSE UNCHANGED watcherObj
    /\ watcherIdx' = watcherIdx + 1
    /\ UNCHANGED <<latestBlockHeight, waiters, watchers, pc, receivedBlockHeight,
                   unseenBlockNumber, watchersCopy, waiterObj>>

\* case watcher.channel <- height
SendToWatcher(w) ==
    /\ watcherObj[w].receiving
    /\ watcherSelect(w)
    /\ UNCHANGED nonBcVars

\* default
DropForWatcher(w) ==
    /\ ~watcherObj[w].receiving
    /\ watcherSelect(w)
    /\ UNCHANGED nonBcVars

\* End of the range over the copy: unseenBlockNumber++ and the loop condition.
NextHeight ==
    /\ pc = "notify"
    /\ watcherIdx > Len(watchersCopy)
    /\ IF LoopCondition(unseenBlockNumber + 1, receivedBlockHeight)
       THEN /\ unseenBlockNumber' = unseenBlockNumber + 1
            /\ pc' = "loop"
            /\ UNCHANGED receivedBlockHeight
       ELSE /\ unseenBlockNumber' = 0
            /\ receivedBlockHeight' = 0
            /\ pc' = "recv"
    /\ watchersCopy' = <<>>
    /\ watcherIdx' = 1
    /\ UNCHANGED <<latestBlockHeight, waiters, watchers, watcherObj, waiterObj>>
    /\ UNCHANGED nonBcVars

receiveBlocks ==
    \/ ProcessHeight
    \/ \E w \in WatcherIds : CloseWatcher(w)
    \/ \E w \in WatcherIds : CloseClosedWatcher(w)
    \/ \E w \in WatcherIds : SendToWatcher(w)
    \/ \E w \in WatcherIds : DropForWatcher(w)
    \/ NextHeight

\* A head notification reaches the subscription channel: any height at all.
HeadNotification ==
    \E block \in Heights : ReceiveBlock(block) /\ UNCHANGED nonBcVars

Callers ==
    \/ \E w \in WatcherIds : WatchBlocks(w)
    \/ \E w \in WatcherIds : CancelWatch(w)
    \/ \E w \in WatcherIds : WatcherCancelled(w)
    \/ \E w \in WatcherIds : ConsumerReceive(w)
    \/ \E i \in WaiterIds, h \in Heights : BlockHeightWaiter(i, h)
    \/ \E i \in WaiterIds : WaitForBlockHeightReturns(i)

Next ==
    \/ HeadNotification
    \/ receiveBlocks
    \/ Callers

Spec == Init /\ [][Next]_vars

\* The goroutine of receiveBlocks and the goroutines started by WatchBlocks are
\* scheduled; nothing is assumed about callers and the ledger.
FairSpec ==
    /\ Spec
    /\ WF_vars(receiveBlocks)
    /\ \A w \in WatcherIds : WF_vars(WatcherCancelled(w))

(***************************************************************************)
(* The scenario of the specification (section 8): a counter started at     *)
(* StartHeight, a waiter registered at MaxHeight, a watchBlocks observer,  *)
(* and the heights StartHeight+1 .. MaxHeight fed one at a time.  The      *)
(* observer records what it receives; what the select drops for it is      *)
(* recorded next to it.                                                    *)
(***************************************************************************)
Observer == CHOOSE w \in WatcherIds : \A v \in WatcherIds : w <= v
ScenarioWaiter == CHOOSE i \in WaiterIds : \A j \in WaiterIds : i <= j

\* The state after createBlockCounter, BlockHeightWaiter(MaxHeight), WatchBlocks.
ScenarioInit ==
    /\ latestBlockHeight = StartHeight
    /\ waiters = [h \in Heights |-> IF h = MaxHeight THEN <<ScenarioWaiter>> ELSE <<>>]
    /\ watchers = <<Observer>>
    /\ pc = "recv"
    /\ receivedBlockHeight = 0
    /\ unseenBlockNumber = 0
    /\ watchersCopy = <<>>
    /\ watcherIdx = 1
    /\ watcherObj = [w \in WatcherIds |->
           IF w = Observer THEN [NewWatcher EXCEPT !.created = TRUE] ELSE NewWatcher]
    /\ waiterObj = [i \in WaiterIds |->
           IF i = ScenarioWaiter
           THEN [state |-> "registered", height |-> MaxHeight, by |-> "none"]
           ELSE NewWaiter]
    /\ NoObserver /\ subscribeBlocks /\ NoSession
    /\ NoKeeps /\ NoSignature /\ NoContracts

\* The next height is fed: the send on the subscription channel is taken by
\* receiveBlocks when it is back at its receive.
FeedNext ==
    /\ latestBlockHeight < MaxHeight
    /\ ReceiveBlock(latestBlockHeight + 1)
    /\ UNCHANGED nonBcVars

\* The select of receiveBlocks at the observer: the observer gets the height ...
ObserverSees ==
    /\ watcherObj[Observer].receiving
    /\ watcherSelect(Observer)
    /\ observed' = Append(observed, watcherObj'[Observer].delivered)
    /\ UNCHANGED <<missed, subVars, tssVars, sessVars, sigVars, restVars>>

\* ... or is not in its receive, and the height is dropped for it.
ObserverMisses ==
    /\ ~watcherObj[Observer].receiving
    /\ watcherSelect(Observer)
    /\ missed' = Append(missed, unseenBlockNumber)
    /\ UNCHANGED <<observed, subVars, tssVars, sessVars, sigVars, restVars>>

ScenarioNext ==
    \/ FeedNext
    \/ ProcessHeight
    \/ ObserverSees
    \/ ObserverMisses
    \/ NextHeight
    \/ ConsumerReceive(Observer)
    \/ WaitForBlockHeightReturns(ScenarioWaiter)

ScenarioSpec == ScenarioInit /\ [][ScenarioNext]_vars

(***************************************************************************)
(* subscribeBlocks.  The retry goroutine is `for { go subscribe();         *)
(* <-errorChan; time.Sleep(5 * time.Second) }`; errorChan and              *)
(* ebc.subscriptionChannel are unbuffered, so a send is one step taken     *)
(* together with the receiver.  A goroutine running subscribe that has     *)
(* returned frees its place.                                               *)
(***************************************************************************)
FreeSub(s) ==
    /\ subPc[s] = "none"
    /\ \A r \in SubIds : r < s => subPc[r] # "none"

AfterSpawn_NoWait == "sleep"

\* <-errorChan: where the retry goroutine is after `go subscribe()`
AfterSpawn == "waitErr"

\* go subscribe(), then the retry goroutine waits at <-errorChan
StartSubscribe(s) ==
    /\ Running
    /\ retryPc = "spawn"
    /\ FreeSub(s)
    /\ subPc' = [subPc EXCEPT ![s] = "subscribing"]
    /\ retryPc' = AfterSpawn
    /\ UNCHANGED <<subErr, subHeader, initPc, initBlock>>
    /\ UNCHANGED <<bcVars, scVars, tssVars, sessVars, sigVars, restVars>>

\* client.SubscribeNewHead returns a subscription or an error
SubscribeNewHead(s, ok) ==
    /\ Running
    /\ subPc[s] = "subscribing"
    /\ subPc' = [subPc EXCEPT ![s] = IF ok THEN "select" ELSE "reportErr"]
    /\ UNCHANGED <<retryPc, subErr, subHeader, initPc, initBlock>>
    /\ UNCHANGED <<bcVars, scVars, tssVars, sessVars, sigVars, restVars>>

\* case header := <-newBlockChan
NewHeader(s, number) ==
    /\ Running
    /\ subPc[s] = "select"
    /\ ~subErr[s]
    /\ subPc' = [subPc EXCEPT ![s] = "push"]
    /\ subHeader' = [subHeader EXCEPT ![s] = number]
    /\ UNCHANGED <<retryPc, subErr, initPc, initBlock>>
    /\ UNCHANGED <<bcVars, scVars, tssVars, sessVars, sigVars, restVars>>

\* ebc.subscriptionChannel <- header.Number, taken by receiveBlocks
PushHeader(s) ==
    /\ Running
    /\ subPc[s] = "push"
    /\ ReceiveBlock(subHeader[s])
    /\ subPc' = [subPc EXCEPT ![s] = "select"]
    /\ subHeader' = [subHeader EXCEPT ![s] = 0]
    /\ UNCHANGED <<retryPc, subErr, initPc, initBlock>>
    /\ UNCHANGED <<scVars, tssVars, sessVars, sigVars, restVars>>

\* The upstream subscription fails: an error is waiting in subscription.Err().
SubscriptionFails(s) ==
    /\ Running
    /\ subPc[s] \in {"select", "push"}
    /\ ~subErr[s]
    /\ subErr' = [subErr EXCEPT ![s] = TRUE]
    /\ UNCHANGED <<retryPc, subPc, subHeader, initPc, initBlock>>
    /\ UNCHANGED <<bcVars, scVars, tssVars, sessVars, sigVars, restVars>>

\* case err = <-subscription.Err(): subscription.Unsubscribe()
SubscriptionErr(s) ==
    /\ Running
    /\ subPc[s] = "select"
    /\ subErr[s]
    /\ subPc' = [subPc EXCEPT ![s] = "reportErr"]
    /\ subErr' = [subErr EXCEPT ![s] = FALSE]
    /\ UNCHANGED <<retryPc, subHeader, initPc, initBlock>>
    /\ UNCHANGED <<bcVars, scVars, tssVars, sessVars, sigVars, restVars>>

\* errorChan <- err; return, together with <-errorChan of the retry goroutine
ReportError(s) ==
    /\ Running
    /\ subPc[s] = "reportErr"
    /\ retryPc = "waitErr"
    /\ subPc' = [subPc EXCEPT ![s] = "none"]
    /\ retryPc' = "sleep"
    /\ UNCHANGED <<subErr, subHeader, initPc, initBlock>>
    /\ UNCHANGED <<bcVars, scVars, tssVars, sessVars, sigVars, restVars>>

\* time.Sleep(5 * time.Second) returns
RetrySleep ==
    /\ Running
    /\ retryPc = "sleep"
    /\ retryPc' = "spawn"
    /\ UNCHANGED <<subPc, subErr, subHeader, initPc, initBlock>>
    /\ UNCHANGED <<bcVars, scVars, tssVars, sessVars, sigVars, restVars>>

\* lastBlock, err := client.BlockByNumber(ctx, nil)
BlockByNumber(ok, number) ==
    /\ Running
    /\ initPc = "blockByNumber"
    /\ IF ok THEN initPc' = "push" /\ initBlock' = number
             ELSE initPc' = "returned" /\ UNCHANGED initBlock
    /\ UNCHANGED <<retryPc, subPc, subErr, subHeader>>
    /\ UNCHANGED <<bcVars, scVars, tssVars, sessVars, sigVars, restVars>>

\* ebc.subscriptionChannel <- lastBlock.Number(); return nil
PushLastBlock ==
    /\ Running
    /\ initPc = "push"
    /\ ReceiveBlock(initBlock)
    /\ initPc' = "returned"
    /\ initBlock' = 0
    /\ UNCHANGED <<retryPc, subPc, subErr, subHeader>>
    /\ UNCHANGED <<scVars, tssVars, sessVars, sigVars, restVars>>

\* The goroutines of subscribeBlocks.
subscribeLoop ==
    \/ \E s \in SubIds : StartSubscribe(s)
    \/ \E s \in SubIds, ok \in BOOLEAN : SubscribeNewHead(s, ok)
    \/ \E s \in SubIds : PushHeader(s)
    \/ \E s \in SubIds : SubscriptionErr(s)
    \/ \E s \in SubIds : ReportError(s)
    \/ RetrySleep
    \/ PushLastBlock

\* What the ledger and the RPC client do.
Upstream ==
    \/ \E s \in SubIds, number \in Heights : NewHeader(s, number)
    \/ \E s \in SubIds : SubscriptionFails(s)
    \/ \E ok \in BOOLEAN, number \in Heights : BlockByNumber(ok, number)

\* The caller of the counter next to the subscription: one watcher or one waiter.
SubCallers ==
    \/ NumClients = 0 /\ WatchBlocks(Observer)
    \/ CancelWatch(Observer)
    \/ WatcherCancelled(Observer)
    \/ ConsumerReceive(Observer)
    \/ \E h \in Heights : NumClients = 0 /\ BlockHeightWaiter(ScenarioWaiter, h)
    \/ WaitForBlockHeightReturns(ScenarioWaiter)

SubNext ==
    \/ subscribeLoop
    \/ Upstream
    \/ receiveBlocks
    \/ SubCallers

SubSpec == Init /\ [][SubNext]_vars

\* Every goroutine of the counter is scheduled, a send whose receiver waits is
\* made, and the calls to the RPC client return.
FairSubSpec ==
    /\ SubSpec
    /\ WF_vars(receiveBlocks)
    /\ \A w \in WatcherIds : WF_vars(WatcherCancelled(w))
    /\ WF_vars(\E s \in SubIds : StartSubscribe(s))
    /\ WF_vars(RetrySleep)
    /\ WF_vars(PushLastBlock)
    /\ \A s \in SubIds :
          /\ WF_vars(\E ok \in BOOLEAN : SubscribeNewHead(s, ok))
          /\ WF_vars(PushHeader(s))
          /\ WF_vars(SubscriptionErr(s))
          /\ WF_vars(ReportError(s))

(***************************************************************************)
(* Initialization of a key-generation session.                             *)
(*                                                                         *)
(* A MemberID is a byte string; bigInt reads it as a big-endian unsigned   *)
(* number (the type and the method are not in the files under src/; they   *)
(* are modelled from the specification, section 3).  Two different ids may *)
(* have the same number (a leading zero byte), and the empty id and the    *)
(* zero bytes have the number 0.                                           *)
(***************************************************************************)
MemberIDs == {<<>>, <<0>>, <<1>>, <<2>>, <<0, 1>>}

Groups == UNION {[1..n -> MemberIDs] : n \in 0..MaxMembers}

RECURSIVE bigInt(_)
bigInt(id) ==
    IF id = <<>> THEN 0
    ELSE 256 * bigInt(SubSeq(id, 1, Len(id) - 1)) + id[Len(id)]

\* The values of uint and of int, and the conversion int(u) of a uint.
UintValues == 0..(2^IntWidth - 1)
IntValues == (0 - 2^(IntWidth - 1))..(2^(IntWidth - 1) - 1)
ToInt(u) == IF u < 2^(IntWidth - 1) THEN u ELSE u - 2^IntWidth

NilPartyID == [id |-> <<>>, moniker |-> "nil", key |-> 0]

\* tss.NewPartyID(id, moniker, key)
NewPartyID(id, moniker, key) == [id |-> id, moniker |-> moniker, key |-> key]

NotPositive_Negative(n) == n < 0

\* memberID.bigInt().Cmp(big.NewInt(0)) <= 0
NotPositive(n) == n <= 0

\* The loop of generatePartiesIDs from position k on.
RECURSIVE partiesIDsFrom(_, _, _, _, _)
partiesIDsFrom(thisMemberID, ids, k, thisPartyID, groupPartiesIDs) ==
    IF k > Len(ids)
    THEN [thisPartyID |-> thisPartyID, groupPartiesIDs |-> groupPartiesIDs, err |-> FALSE]
    ELSE IF NotPositive(bigInt(ids[k]))
    THEN [thisPartyID |-> NilPartyID, groupPartiesIDs |-> <<>>, err |-> TRUE]
    ELSE LET newPartyID == NewPartyID(ids[k], "", bigInt(ids[k]))
         IN partiesIDsFrom(thisMemberID, ids, k + 1,
                           IF thisMemberID = ids[k] THEN newPartyID ELSE thisPartyID,
                           Append(groupPartiesIDs, newPartyID))

generatePartiesIDs(thisMemberID, ids) ==
    partiesIDsFrom(thisMemberID, ids, 1, NilPartyID, <<>>)

\* A call of one of the two entry points, with any arguments.  The caller of
\* InitializeKeyGeneration brings a bridge; GenerateThresholdSigner makes one.
TssInit ==
    /\ createBlockCounter(StartHeight) /\ NoObserver /\ subscribeBlocks
    /\ NoKeeps /\ NoSignature /\ NoContracts
    /\ tssPc = "called"
    /\ entry \in {"GenerateThresholdSigner", "InitializeKeyGeneration"}
    /\ memberID \in MemberIDs
    /\ groupMemberIDs \in Groups
    /\ thresholdArg \in IF entry = "GenerateThresholdSigner" THEN UintValues ELSE IntValues
    /\ threshold = 0
    /\ partiesIDs = NoPartiesIDs
    /\ party = FALSE
    /\ bridge = IF entry = "InitializeKeyGeneration" THEN "created" ELSE "none"
    /\ tssErr = ""

\* GenerateThresholdSigner up to the call of initializeKeyGeneration (the
\* pre-parameters are taken as given).
GenerateThresholdSigner ==
    /\ tssPc = "called"
    /\ entry = "GenerateThresholdSigner"
    /\ IF Len(groupMemberIDs) < 1
       THEN /\ tssErr' = "group should have at least one member"
            /\ tssPc' = "returned"
            /\ UNCHANGED <<threshold, bridge>>
       ELSE IF Len(groupMemberIDs) <= ToInt(thresholdArg)
       THEN /\ tssErr' = "group size should be greater than dishonest threshold"
            /\ tssPc' = "returned"
            /\ UNCHANGED <<threshold, bridge>>
       ELSE /\ threshold' = ToInt(thresholdArg)
            /\ bridge' = "created"
            /\ tssPc' = "initialize"
            /\ UNCHANGED tssErr
    /\ UNCHANGED <<entry, memberID, groupMemberIDs, thresholdArg, partiesIDs, party>>
    /\ UNCHANGED <<bcVars, scVars, subVars, sessVars, sigVars, restVars>>

\* InitializeKeyGeneration up to the call of initializeKeyGenerationParty.
InitializeKeyGeneration ==
    /\ tssPc = "called"
    /\ entry = "InitializeKeyGeneration"
    /\ IF Len(groupMemberIDs) <= thresholdArg
       THEN /\ tssErr' = "group size should be greater than threshold"
            /\ tssPc' = "returned"
            /\ UNCHANGED threshold
       ELSE /\ threshold' = thresholdArg
            /\ tssPc' = "initialize"
            /\ UNCHANGED tssErr
    /\ UNCHANGED <<entry, memberID, groupMemberIDs, thresholdArg, partiesIDs, party, bridge>>
    /\ UNCHANGED <<bcVars, scVars, subVars, sessVars, sigVars, restVars>>

\* initializeKeyGenerationParty: generatePartiesIDs and its error check.
GeneratePartiesIDs ==
    /\ tssPc = "initialize"
    /\ partiesIDs' = generatePartiesIDs(memberID, groupMemberIDs)
    /\ IF partiesIDs'.err
       THEN tssErr' = "failed to generate parties IDs" /\ tssPc' = "returned"
       ELSE tssPc' = "newParty" /\ UNCHANGED tssErr
    /\ UNCHANGED <<entry, memberID, groupMemberIDs, thresholdArg, threshold, party, bridge>>
    /\ UNCHANGED <<bcVars, scVars, subVars, sessVars, sigVars, restVars>>

\* tss.NewPeerContext, tss.NewParameters, keygen.NewLocalParty
NewLocalParty ==
    /\ tssPc = "newParty"
    /\ party' = TRUE
    /\ tssPc' = "bridgeStart"
    /\ UNCHANGED <<entry, memberID, groupMemberIDs, thresholdArg, threshold,
                   partiesIDs, bridge, tssErr>>
    /\ UNCHANGED <<bcVars, scVars, subVars, sessVars, sigVars, restVars>>

\* bridge.start(...) and the return of the initialization
BridgeStart(ok) ==
    /\ tssPc = "bridgeStart"
    /\ IF ok THEN bridge' = "started" /\ UNCHANGED tssErr
             ELSE tssErr' = "failed to connect bridge network" /\ UNCHANGED bridge
    /\ tssPc' = "returned"
    /\ UNCHANGED <<entry, memberID, groupMemberIDs, thresholdArg, threshold,
                   partiesIDs, party>>
    /\ UNCHANGED <<bcVars, scVars, subVars, sessVars, sigVars, restVars>>

TssNext ==
    \/ GenerateThresholdSigner
    \/ InitializeKeyGeneration
    \/ GeneratePartiesIDs
    \/ NewLocalParty
    \/ \E ok \in BOOLEAN : BridgeStart(ok)

TssSpec == TssInit /\ [][TssNext]_vars

(***************************************************************************)
(* Properties of the block counter.                                        *)
(***************************************************************************)
Signalled(i) == waiterObj[i].state \in {"fired", "woken"}

\* C1: a waiter for height h is signalled (its goroutine started, or its wait
\* returned) only in states where latestBlockHeight >= h.
C1_NoEarlyWake ==
    \A i \in WaiterIds : Signalled(i) => latestBlockHeight >= waiterObj[i].height

\* A waiter that had to wait (registered in the map, fired by receiveBlocks)
\* has returned from its wait.
C1_Witness ==
    \E i \in WaiterIds : waiterObj[i].state = "woken" /\ waiterObj[i].by = "loop"

\* The step in which the consumer of w takes a height from the channel.
Delivery(w) ==
    /\ watcherObj[w].receiving
    /\ ~watcherObj'[w].receiving
    /\ ~watcherObj'[w].closed

\* C2: every height a watcher's consumer receives is greater than the one it
\* received before, so the heights of a watcher are strictly increasing.
C2_StrictlyIncreasing ==
    [][\A w \in WatcherIds :
          (Delivery(w) \/ watcherObj'[w].delivered # watcherObj[w].delivered)
              => watcherObj'[w].delivered > watcherObj[w].delivered]_vars

\* A watcher that received a height before is about to receive the next one.
C2_Witness ==
    \E w \in WatcherIds :
        /\ AtWatcher(w)
        /\ watcherObj[w].receiving
        /\ ~watcherObj[w].ctxErr
        /\ watcherObj[w].delivered > 0

\* The loop of receiveBlocks stands at watcher w, whose context is not cancelled.
AtLiveWatcher(w) == AtWatcher(w) /\ ~watcherObj[w].ctxErr

\* The send to a watcher is non-blocking.  Whenever the loop stands at a watcher
\* that is not cancelled a step of receiveBlocks is possible, whatever the
\* consumer does; that step moves on to the next watcher and touches no other
\* watcher and no waiter; it hands the height being processed to the consumer
\* if and only if the consumer was receiving, and a height is handed over only
\* in such a step, while it is the height being processed (never later); the
\* waiters of the height have all been fired before the first watcher is
\* visited.
SlowWatcherOnlyLosesItsHeight ==
    /\ [](\A w \in WatcherIds : AtLiveWatcher(w) => ENABLED <<receiveBlocks>>_vars)
    /\ [](pc = "notify" =>
            /\ waiters[unseenBlockNumber] = <<>>
            /\ unseenBlockNumber = latestBlockHeight
            /\ \A i \in WaiterIds :
                  waiterObj[i].height = unseenBlockNumber => waiterObj[i].state # "registered")
    /\ [][\A w \in WatcherIds :
            /\ (AtLiveWatcher(w) /\ <<receiveBlocks>>_vars) =>
                  /\ watcherIdx' = watcherIdx + 1
                  /\ pc' = "notify"
                  /\ waiterObj' = waiterObj
                  /\ \A v \in WatcherIds \ {w} : watcherObj'[v] = watcherObj[v]
                  /\ watcherObj'[w].delivered =
                        IF watcherObj[w].receiving THEN unseenBlockNumber
                        ELSE watcherObj[w].delivered
            /\ watcherObj'[w].delivered # watcherObj[w].delivered =>
                  /\ AtLiveWatcher(w)
                  /\ watcherObj'[w].delivered = latestBlockHeight
                  /\ watcherObj[w].delivered < latestBlockHeight]_vars

\* receiveBlocks has passed watcher w at the height it is processing and w, not
\* cancelled, did not get the height: the height was dropped for w.
DroppedFor(w) ==
    /\ pc = "notify"
    /\ \E k \in 1..Len(watchersCopy) : k < watcherIdx /\ watchersCopy[k] = w
    /\ ~watcherObj[w].ctxErr
    /\ watcherObj[w].delivered < unseenBlockNumber

\* C3: after a height was dropped for a watcher that was not receiving, the loop
\* goes on: it eventually gets past the remaining watchers of this height (they
\* are served) and reaches the next height or the next notification.
C3_ProcessingContinues ==
    \A w \in WatcherIds : DroppedFor(w) ~> (pc \in {"loop", "recv"})

\* Two watchers were visited for one height: the first was not receiving and
\* missed the height, the second received it.
C3_Witness ==
    /\ pc = "notify"
    /\ Len(watchersCopy) = 2
    /\ watcherIdx = 3
    /\ ~watcherObj[watchersCopy[1]].ctxErr
    /\ watcherObj[watchersCopy[1]].delivered < unseenBlockNumber
    /\ watcherObj[watchersCopy[2]].delivered = unseenBlockNumber

\* C4: receiveBlocks leaves the work on a notification of height H (greater than
\* the latest height) only with latestBlockHeight = H: it has then processed
\* every height up to H.
C4_EndsAtReceivedHeight ==
    [][(pc # "recv" /\ pc' \in {"recv", "panicked"})
          => latestBlockHeight' = receivedBlockHeight]_vars

\* C5: once the context of a watcher is cancelled, the channel of the watcher
\* is eventually closed, so that a consumer reading it until it ends terminates.
C5_CancelledWatcherIsClosed ==
    \A w \in WatcherIds : watcherObj[w].ctxErr ~> watcherObj[w].closed

\* Watcher w has been removed from the list by its cancellation goroutine with
\* its channel open, and receiveBlocks holds no copy of the list with w in it.
Orphan(w) ==
    /\ watcherObj[w].removerDone
    /\ ~watcherObj[w].closed
    /\ w \notin SeqToSet(watchers)
    /\ w \notin SeqToSet(watchersCopy)

\* Such a watcher stays so for ever: no step closes its channel.
OrphanStaysOpen ==
    [][\A w \in WatcherIds : Orphan(w) => Orphan(w)']_vars

\* C7: no waiter stays registered at a height the counter has reached: the map
\* holds waiters only above latestBlockHeight, and a wait for a height that is
\* reached is answered in the call itself.
C7_NoWaiterLeftBehind ==
    /\ \A h \in Heights : h <= latestBlockHeight => waiters[h] = <<>>
    /\ \A i \in WaiterIds :
          /\ waiterObj[i].state = "registered" =>
                /\ waiterObj[i].height > latestBlockHeight
                /\ i \in SeqToSet(waiters[waiterObj[i].height])
          /\ waiterObj[i].state # "none" /\ waiterObj[i].height <= latestBlockHeight
                => Signalled(i)

\* A wait for the height that receiveBlocks is processing at that moment was
\* answered by the call, between two steps of the loop.
C7_Witness ==
    \E i \in WaiterIds :
        /\ waiterObj[i].by = "call"
        /\ waiterObj[i].height = latestBlockHeight
        /\ waiterObj[i].height > StartHeight
        /\ pc = "notify"

\* The heights StartHeight+1 .. h, in order.
HeightsUpTo(h) == [k \in 1..(h - StartHeight) |-> StartHeight + k]

StrictlyIncreasing(s) == \A j, k \in 1..Len(s) : j < k => s[j] < s[k]

\* The heights for which receiveBlocks has been through its select at the observer.
SelectedUpTo ==
    IF pc = "loop" \/ (pc = "notify" /\ watcherIdx = 1)
    THEN unseenBlockNumber - 1
    ELSE latestBlockHeight

\* C6 (as stated): when the heights StartHeight+1 .. MaxHeight have been fed and
\* processed, the observer has seen every one of them.
C6_ObserverSeesEveryHeight ==
    (latestBlockHeight = MaxHeight /\ pc = "recv") => observed = HeightsUpTo(MaxHeight)

\* C6 (amended): the wait is answered exactly by the processing of MaxHeight
\* (the waiter is registered while latestBlockHeight < MaxHeight and signalled
\* from then on); the observer sees, in increasing order, exactly the heights
\* at whose processing it was in its receive, the others are dropped for it and
\* never reach it; it sees the complete sequence if and only if nothing was
\* dropped.
C6_WaitExactObserverSeesReadyHeights ==
    /\ waiterObj[ScenarioWaiter].height = MaxHeight
    /\ waiterObj[ScenarioWaiter].state = "registered" <=> latestBlockHeight < MaxHeight
    /\ Signalled(ScenarioWaiter) <=> latestBlockHeight = MaxHeight
    /\ StrictlyIncreasing(observed)
    /\ StrictlyIncreasing(missed)
    /\ SeqToSet(observed) \cap SeqToSet(missed) = {}
    /\ SeqToSet(observed) \cup SeqToSet(missed) = SeqToSet(HeightsUpTo(SelectedUpTo))
    /\ missed = <<>> <=> observed = HeightsUpTo(SelectedUpTo)

\* The scenario has run to its end, the wait has returned and the observer, in
\* its receive each time, has seen every height.
C6_Witness ==
    /\ latestBlockHeight = MaxHeight
    /\ pc = "recv"
    /\ waiterObj[ScenarioWaiter].state = "woken"
    /\ observed = HeightsUpTo(MaxHeight)

\* An upstream failure of the subscription of goroutine s: SubscribeNewHead
\* returned an error, or subscription.Err() has one.
Failure(s) == subPc[s] = "reportErr" \/ subErr[s]

Subscribing == \E s \in SubIds : subPc[s] = "subscribing"

\* A step that is the failure itself or its handling up to the retry.
FailureStep(s) ==
    \/ ~subErr[s] /\ subErr'[s]
    \/ subPc[s] # "reportErr" /\ subPc'[s] = "reportErr"
    \/ subPc[s] = "reportErr" /\ subPc'[s] = "none"

\* While the process runs, every failure is followed by a new call of
\* SubscribeNewHead, and no failure step changes the counter: no waiter is
\* fired and nothing is sent to a watcher.
RetryWhileCounterRuns ==
    /\ \A s \in SubIds : Failure(s) ~> (Subscribing \/ pc = "panicked")
    /\ [][\A s \in SubIds : FailureStep(s) => UNCHANGED bcVars]_vars

\* C8: every failure of the upstream subscription, at creation or while it
\* runs, is eventually followed by a new subscription attempt.
C8_FailureIsFollowedByAttempt ==
    \A s \in SubIds : Failure(s) ~> Subscribing

\* C9: a group whose member count is <= the dishonest threshold given to the
\* initialization is rejected with an error, before the party is constructed
\* and before the bridge is started.
C9_SmallGroupIsRejected ==
    Len(groupMemberIDs) <= thresholdArg =>
        /\ tssPc = "returned" => tssErr # ""
        /\ ~party
        /\ bridge # "started"

\* The same for the thresholds that int holds: every call of
\* InitializeKeyGeneration, and the calls of GenerateThresholdSigner with
\* dishonestThreshold < 2^(IntWidth-1).
SmallGroupIsRejectedWithinInt ==
    (Len(groupMemberIDs) <= thresholdArg /\ thresholdArg < 2^(IntWidth - 1)) =>
        /\ tssPc \in {"called", "returned"}
        /\ tssPc = "returned" => tssErr # ""
        /\ ~party
        /\ bridge # "started"

\* generatePartiesIDs has returned.
PartiesIDsGenerated ==
    \/ tssPc \in {"newParty", "bridgeStart"}
    \/ tssPc = "returned" /\ tssErr \in {"", "failed to generate parties IDs",
                                         "failed to connect bridge network"}

\* C10: generatePartiesIDs returns an error and no party ids if some member id
\* of the group, at any position, has integer form <= 0; otherwise it returns
\* one party id per member, in input order, each with the member's id and
\* integer form.
C10_PartiesIDs ==
    PartiesIDsGenerated =>
        IF \E k \in 1..Len(groupMemberIDs) : bigInt(groupMemberIDs[k]) <= 0
        THEN /\ partiesIDs.err
             /\ partiesIDs.groupPartiesIDs = <<>>
             /\ partiesIDs.thisPartyID = NilPartyID
             /\ tssErr = "failed to generate parties IDs"
             /\ ~party
        ELSE /\ ~partiesIDs.err
             /\ Len(partiesIDs.groupPartiesIDs) = Len(groupMemberIDs)
             /\ \A k \in 1..Len(groupMemberIDs) :
                   /\ partiesIDs.groupPartiesIDs[k].id = groupMemberIDs[k]
                   /\ partiesIDs.groupPartiesIDs[k].key = bigInt(groupMemberIDs[k])

\* A group whose last member has integer form 0, after members that are
\* positive, was rejected by generatePartiesIDs.
C10_Witness ==
    /\ PartiesIDsGenerated
    /\ Len(groupMemberIDs) = MaxMembers
    /\ \A k \in 1..(MaxMembers - 1) : bigInt(groupMemberIDs[k]) > 0
    /\ bigInt(groupMemberIDs[MaxMembers]) = 0
    /\ partiesIDs.err

\* The party of the session has been constructed (keygen.NewLocalParty).
PartyConstructed == party

\* C11: every group for which InitializeKeyGeneration constructs a
\* cryptographic party satisfies the invariants of its group info: the
\* threshold is not negative, and this member is in the member list, so that
\* the party's own party id is not nil.
C11_PartyGroupIsValid ==
    (entry = "InitializeKeyGeneration" /\ PartyConstructed) =>
        /\ 0 <= threshold
        /\ \E k \in 1..Len(groupMemberIDs) : groupMemberIDs[k] = memberID
        /\ partiesIDs.thisPartyID # NilPartyID

\* What the initialization does guarantee of the group of a party it builds:
\* the group is larger than the int threshold, every member id is positive,
\* and the party's own id is nil exactly if this member is not in the list.
PartyGroupGuarantees ==
    PartyConstructed =>
        /\ Len(groupMemberIDs) > threshold
        /\ \A k \in 1..Len(groupMemberIDs) : bigInt(groupMemberIDs[k]) > 0
        /\ partiesIDs.thisPartyID = NilPartyID
              <=> ~\E k \in 1..Len(groupMemberIDs) : groupMemberIDs[k] = memberID

(***************************************************************************)
(* The run of the sessions of two keeps.                                   *)
(*                                                                         *)
(* Every member of a keep calls GenerateThresholdSigner (key generation)   *)
(* or CalculateSignature (signing): it makes its bridge, initializes its   *)
(* party, passes the barrier KeyGenSync or SigningSync (Done, then Wait)   *)
(* and runs generateKey or sign: deferred close of the bridge, Start of    *)
(* the party, select over the end channel and the error channel.  The      *)
(* WaitGroups are package variables, one per operation, shared by all      *)
(* keeps; the caller adds the members of a keep before it calls them.      *)
(* The party and the bridge are the environment: the party sends its       *)
(* result on the end channel it was constructed with; the bridge, which    *)
(* feeds the party, sends on the one error channel it was started with the *)
(* round failures of the party and its own transport errors.               *)
(***************************************************************************)
Operations == {"GenerateThresholdSigner", "CalculateSignature"}

\* The WaitGroup the members of keep k synchronize on.
SyncOf(k) ==
    IF operation[k] = "GenerateThresholdSigner" THEN "KeyGenSync" ELSE "SigningSync"

nonSessVars == <<bcVars, scVars, subVars, tssVars, sigVars, restVars>>

SessionInit ==
    /\ createBlockCounter(StartHeight) /\ NoObserver /\ subscribeBlocks /\ NoSession
    /\ NoSignature /\ NoContracts
    /\ operation \in [Keeps -> Operations]
    /\ syncGroup = [w \in {"KeyGenSync", "SigningSync"} |-> 0]
    /\ callPc = [m \in SessMembers |-> "idle"]
    /\ netBridge = [m \in SessMembers |-> "none"]
    /\ endChan = [m \in SessMembers |-> FALSE]
    /\ errChan = [m \in SessMembers |-> "none"]
    /\ signer = [m \in SessMembers |-> FALSE]
    /\ callErr = [m \in SessMembers |-> ""]
    /\ ctxCancelled = [m \in SessMembers |-> FALSE]

\* The caller of the members of keep k: it adds them to the WaitGroup and
\* calls each of them.
LaunchKeep(k) ==
    /\ \A m \in MembersOf(k) : callPc[m] = "idle"
    /\ syncGroup' = [syncGroup EXCEPT ![SyncOf(k)] = @ + Cardinality(MembersOf(k))]
    /\ callPc' = [m \in SessMembers |-> IF KeepOf(m) = k THEN "called" ELSE callPc[m]]
    /\ UNCHANGED <<operation, netBridge, endChan, errChan, signer, callErr, ctxCancelled>>
    /\ UNCHANGED nonSessVars

\* newNetworkBridge and initializeKeyGeneration / initializeSigning: on an
\* error the call returns it, before the barrier.
InitializeSession(m, ok) ==
    /\ callPc[m] = "called"
    /\ IF ok
       THEN /\ netBridge' = [netBridge EXCEPT ![m] = "connected"]
            /\ callPc' = [callPc EXCEPT ![m] = "done"]
            /\ UNCHANGED callErr
       ELSE /\ netBridge' = [netBridge EXCEPT ![m] = "created"]
            /\ callPc' = [callPc EXCEPT ![m] = "returned"]
            /\ callErr' = [callErr EXCEPT ![m] = "initialize"]
    /\ UNCHANGED <<operation, syncGroup, endChan, errChan, signer, ctxCancelled>>
    /\ UNCHANGED nonSessVars

\* The calls of Wait on WaitGroup w that are blocked.
Waiting(w) == {m \in SessMembers : callPc[m] = "waiting" /\ SyncOf(KeepOf(m)) = w}

\* KeyGenSync.Done() / SigningSync.Done(): the counter goes down by one, and
\* at zero every blocked Wait is released.  (Done on a zero counter panics;
\* the caller has added every member it calls.)
SyncDone(m) ==
    /\ callPc[m] = "done"
    /\ syncGroup[SyncOf(KeepOf(m))] > 0
    /\ syncGroup' = [syncGroup EXCEPT ![SyncOf(KeepOf(m))] = @ - 1]
    /\ callPc' = [n \in SessMembers |->
                    IF n = m THEN "wait"
                    ELSE IF syncGroup'[SyncOf(KeepOf(m))] = 0
                            /\ n \in Waiting(SyncOf(KeepOf(m)))
                    THEN "start"
                    ELSE callPc[n]]
    /\ UNCHANGED <<operation, netBridge, endChan, errChan, signer, callErr, ctxCancelled>>
    /\ UNCHANGED nonSessVars

WaitReturns_Always(count) == TRUE

\* Wait returns at once if the counter is zero.
WaitReturns(count) == count = 0

\* KeyGenSync.Wait() / SigningSync.Wait()
SyncWait(m) ==
    /\ callPc[m] = "wait"
    /\ callPc' = [callPc EXCEPT ![m] =
                    IF WaitReturns(syncGroup[SyncOf(KeepOf(m))]) THEN "start" ELSE "waiting"]
    /\ UNCHANGED <<operation, syncGroup, netBridge, endChan, errChan, signer, callErr,
                   ctxCancelled>>
    /\ UNCHANGED nonSessVars

DeferredClose_OnSuccess(path, b) == IF path = "end" THEN "closed" ELSE b

\* defer s.networkBridge.close(): the bridge after the return by `path`.
DeferredClose(path, b) == "closed"

\* generateKey / sign up to the select: the party of an initialized session is
\* never nil; Start either fails, and the call returns the error, or the
\* session is started.
PartyStart(m, ok) ==
    /\ callPc[m] = "start"
    /\ IF ok
       THEN /\ callPc' = [callPc EXCEPT ![m] = "select"]
            /\ UNCHANGED <<netBridge, callErr>>
       ELSE /\ callPc' = [callPc EXCEPT ![m] = "returned"]
            /\ callErr' = [callErr EXCEPT ![m] = "start"]
            /\ netBridge' = [netBridge EXCEPT ![m] = DeferredClose("start", @)]
    /\ UNCHANGED <<operation, syncGroup, endChan, errChan, signer, ctxCancelled>>
    /\ UNCHANGED nonSessVars

SelectNext_LoopOnError(case) == IF case = "err" THEN "select" ELSE "returned"

\* Both cases of the select return from the loop.
SelectNext(case) == "returned"

\* case keygenData := <-s.keygenEndChan / case signature := <-s.signingEndChan
ReceiveEnd(m) ==
    /\ callPc[m] = "select"
    /\ endChan[m]
    /\ endChan' = [endChan EXCEPT ![m] = FALSE]
    /\ signer' = [signer EXCEPT ![m] = TRUE]
    /\ callPc' = [callPc EXCEPT ![m] = SelectNext("end")]
    /\ netBridge' = [netBridge EXCEPT ![m] =
                       IF callPc'[m] = "returned" THEN DeferredClose("end", @) ELSE @]
    /\ UNCHANGED <<operation, syncGroup, errChan, callErr, ctxCancelled>>
    /\ UNCHANGED nonSessVars

\* case err := <-s.keygenErrChan / case err := <-s.signingErrChan
ReceiveErr(m) ==
    /\ callPc[m] = "select"
    /\ errChan[m] # "none"
    /\ errChan' = [errChan EXCEPT ![m] = "none"]
    /\ callErr' = [callErr EXCEPT ![m] = errChan[m]]
    /\ callPc' = [callPc EXCEPT ![m] = SelectNext("err")]
    /\ netBridge' = [netBridge EXCEPT ![m] =
                       IF callPc'[m] = "returned" THEN DeferredClose("err", @) ELSE @]
    /\ UNCHANGED <<operation, syncGroup, endChan, signer, ctxCancelled>>
    /\ UNCHANGED nonSessVars

\* The party of a started session has its result and sends it.
PartyEnds(m) ==
    /\ callPc[m] = "select"
    /\ ~endChan[m]
    /\ errChan[m] # "round"
    /\ endChan' = [endChan EXCEPT ![m] = TRUE]
    /\ UNCHANGED <<operation, syncGroup, callPc, netBridge, errChan, signer, callErr,
                   ctxCancelled>>
    /\ UNCHANGED nonSessVars

\* The party of a started session fails in a round; the error is sent on the
\* error channel.
PartyFails(m) ==
    /\ callPc[m] = "select"
    /\ ~endChan[m]
    /\ errChan[m] = "none"
    /\ errChan' = [errChan EXCEPT ![m] = "round"]
    /\ UNCHANGED <<operation, syncGroup, callPc, netBridge, endChan, signer, callErr,
                   ctxCancelled>>
    /\ UNCHANGED nonSessVars

\* The bridge fails to send or to decode a message and reports the error on
\* the error channel it was started with.
BridgeReportsError(m) ==
    /\ callPc[m] = "select"
    /\ netBridge[m] = "connected"
    /\ errChan[m] = "none"
    /\ errChan' = [errChan EXCEPT ![m] = "transport"]
    /\ UNCHANGED <<operation, syncGroup, callPc, netBridge, endChan, signer, callErr,
                   ctxCancelled>>
    /\ UNCHANGED nonSessVars

\* The caller cancels the context of the started session of m.
CallerCancels(m) ==
    /\ callPc[m] = "select"
    /\ ~ctxCancelled[m]
    /\ ctxCancelled' = [ctxCancelled EXCEPT ![m] = TRUE]
    /\ UNCHANGED <<operation, syncGroup, callPc, netBridge, endChan, errChan, signer,
                   callErr>>
    /\ UNCHANGED nonSessVars

\* The steps of the call of member m.
MemberStep(m) ==
    \/ \E ok \in BOOLEAN : InitializeSession(m, ok)
    \/ SyncDone(m)
    \/ SyncWait(m)
    \/ \E ok \in BOOLEAN : PartyStart(m, ok)
    \/ ReceiveEnd(m)
    \/ ReceiveErr(m)

\* The steps of the party and of the bridge of member m.
PartyStep(m) ==
    \/ PartyEnds(m)
    \/ PartyFails(m)
    \/ BridgeReportsError(m)

SessionNext ==
    \/ \E k \in Keeps : LaunchKeep(k)
    \/ \E m \in SessMembers : MemberStep(m)
    \/ \E m \in SessMembers : PartyStep(m)
    \/ \E m \in SessMembers : CallerCancels(m)

SessionSpec == SessionInit /\ [][SessionNext]_vars

\* Every member's call takes its next step if one is possible; nothing is
\* assumed of the callers, the parties and the bridges.
FairSessionSpec ==
    SessionSpec /\ \A m \in SessMembers : WF_vars(MemberStep(m))

\* Member m has called Start on its party (the call may have failed).
Started(m) ==
    \/ callPc[m] = "select"
    \/ callPc[m] = "returned" /\ callErr[m] # "initialize"

\* Member m has finished its initialization and signalled readiness (Done).
Ready(m) ==
    \/ callPc[m] \in {"wait", "waiting", "start", "select"}
    \/ callPc[m] = "returned" /\ callErr[m] # "initialize"

\* The session of m has ended: the call has returned after Start was called.
Terminal(m) == callPc[m] = "returned" /\ callErr[m] # "initialize"

\* C12: the bridge of a session is closed on every path by which the session
\* ends after Start is called (result received, error received, failure of
\* Start): no call has returned from there with its bridge open.
C12_BridgeClosedOnReturn ==
    \A m \in SessMembers : Terminal(m) => netBridge[m] = "closed"

\* The three members have ended by the three paths, each with a closed bridge.
C12_Witness ==
    /\ \E m \in SessMembers : Terminal(m) /\ signer[m] /\ netBridge[m] = "closed"
    /\ \E m \in SessMembers : Terminal(m) /\ callErr[m] = "start" /\ netBridge[m] = "closed"
    /\ \E m \in SessMembers : Terminal(m) /\ callErr[m] = "round" /\ netBridge[m] = "closed"

\* A delivery is pending on one of the two channels of m.
Offered(m) == endChan[m] \/ errChan[m] # "none"

\* The step by which the started session of m ends takes exactly one delivery
\* and the outcome is that delivery's.
DecidedByDelivery(m) ==
    (callPc[m] = "select" /\ callPc'[m] # "select") =>
        /\ callPc'[m] = "returned"
        /\ \/ /\ endChan[m] /\ ~endChan'[m] /\ errChan'[m] = errChan[m]
              /\ signer'[m] /\ callErr'[m] = ""
           \/ /\ errChan[m] # "none" /\ errChan'[m] = "none" /\ endChan'[m] = endChan[m]
              /\ ~signer'[m] /\ callErr'[m] = errChan[m]

\* Nothing of a session that has ended changes.
TerminalIsStable(m) ==
    Terminal(m) =>
        /\ callPc'[m] = callPc[m]
        /\ signer'[m] = signer[m]
        /\ callErr'[m] = callErr[m]
        /\ netBridge'[m] = netBridge[m]

\* C13: a started session reaches exactly one terminal state, decided by the
\* first delivery on the end channel or the error channel: an output and no
\* error, or an error and no output, never both, and nothing changes after.
C13_OneTerminalState ==
    /\ [](\A m \in SessMembers :
            /\ ~(signer[m] /\ callErr[m] # "")
            /\ callPc[m] = "select" => (~signer[m] /\ callErr[m] = "")
            /\ Terminal(m) => (signer[m] \/ callErr[m] # ""))
    /\ [][\A m \in SessMembers : DecidedByDelivery(m) /\ TerminalIsStable(m)]_vars

\* Once a delivery is pending on one of its channels, a started session does
\* reach its terminal state.
StartedSessionEndsOnDelivery ==
    \A m \in SessMembers : (callPc[m] = "select" /\ Offered(m)) ~> Terminal(m)

\* A session has ended with the output while an error was pending too.
C13_Witness ==
    \E m \in SessMembers : Terminal(m) /\ signer[m] /\ errChan[m] # "none"

\* C14: if the caller cancels the context of a started session, the call
\* eventually returns; it does not stay blocked waiting for the party.
C14_CancelledSessionReturns ==
    \A m \in SessMembers : (ctxCancelled[m] /\ callPc[m] = "select") ~> callPc[m] = "returned"

C16_WaitExpires ==
    \A m, n \in SessMembers :
        (/\ KeepOf(m) = KeepOf(n)
         /\ callPc[m] = "waiting"
         /\ callPc[n] = "returned" /\ callErr[n] = "initialize")
        ~> (callPc[m] = "returned" /\ ~Started(m))

\* The readiness barrier of keep k as its members see it.
BarrierOf(k) == <<syncGroup[SyncOf(k)], [m \in MembersOf(k) |-> callPc[m]]>>

\* Keep k has members that are between their call and the end of their wait.
AtBarrier(k) ==
    \E m \in MembersOf(k) : callPc[m] \in {"called", "done", "wait", "waiting"}

\* A step of the call of a member of keep k.
StepOf(k) == \E m \in MembersOf(k) : callPc[m] # "idle" /\ callPc'[m] # callPc[m]

\* C17: the sessions of different keeps share no state: a step of a member
\* of keep b (its initialization, its readiness signal, its start, its end)
\* never changes the readiness barrier of another keep a.
C17_KeepsAreIndependent ==
    [][\A a, b \in Keeps :
         (a # b /\ AtBarrier(a) /\ StepOf(b) /\ ~StepOf(a))
            => BarrierOf(a)' = BarrierOf(a)]_vars

\* The session of m has failed while running.
Failed(m) == Terminal(m) /\ callErr[m] \notin {"", "start"}

\* C18: a session fails only if its party reports a round failure or its
\* context is cancelled; a transport error reported by the bridge leaves the
\* session running.
C18_TransportErrorDoesNotFail ==
    \A m \in SessMembers : Failed(m) => (callErr[m] = "round" \/ ctxCancelled[m])

(***************************************************************************)
(* Conversion of the signature of the signing party.                       *)
(*                                                                         *)
(* signing.SignatureData holds r, s and the recovery id as byte strings;   *)
(* ecdsa.Signature holds R and S as big integers and RecoveryID as an int. *)
(***************************************************************************)
\* Byte values of the components r and s, and of the recovery bytes.
ComponentBytes == {0, 1, 255}
RecoveryBytes == {0, 1, 2, 3, 27, 255}

ByteStrings(values) == UNION {[1..n -> values] : n \in 0..MaxBytes}

\* new(big.Int).SetBytes(bytes): the bytes as a big-endian unsigned integer.
RECURSIVE SetBytes(_)
SetBytes(bytes) ==
    IF bytes = <<>> THEN 0
    ELSE 256 * SetBytes(SubSeq(bytes, 1, Len(bytes) - 1)) + bytes[Len(bytes)]

ShiftOr_ByteShifted(recoveryInt, byte) == recoveryInt + byte * 256

\* (recoveryInt << 8) | int(byte): the low 8 bits of the shifted value are
\* zero, so the or puts the byte there.
ShiftOr(recoveryInt, byte) == recoveryInt * 256 + byte

RecoveryInt_EthereumV(recoveryBytes) == ShiftOr(0, recoveryBytes[1]) + 27

\* recoveryInt := int(0); recoveryInt = (recoveryInt << 8) | int(recoveryBytes[0])
RecoveryInt(recoveryBytes) == ShiftOr(0, recoveryBytes[1])

convertSignatureTSStoECDSA(tssSignature) ==
    [R |-> SetBytes(tssSignature.r),
     S |-> SetBytes(tssSignature.s),
     RecoveryID |-> RecoveryInt(tssSignature.recovery)]

\* The recovery id the signing party computes in its last round: 2 if the x
\* coordinate of R exceeded the group order, or-ed with the parity of the y
\* coordinate, the parity flipped if s was replaced by N - s.
PartyRecovery(rxOverN, ryOdd, sFlipped) ==
    LET recid == (IF rxOverN THEN 2 ELSE 0) + (IF ryOdd THEN 1 ELSE 0)
    IN IF sFlipped THEN (IF recid % 2 = 0 THEN recid + 1 ELSE recid - 1) ELSE recid

nonSigVars == <<bcVars, scVars, subVars, tssVars, sessVars, restVars>>

\* A call of convertSignatureTSStoECDSA with any signature data.
ConvertInit ==
    /\ createBlockCounter(StartHeight) /\ NoObserver /\ subscribeBlocks /\ NoSession
    /\ NoKeeps /\ NoContracts
    /\ sigPc = "called"
    /\ signatureData \in [r : ByteStrings(ComponentBytes),
                          s : ByteStrings(ComponentBytes),
                          recovery : ByteStrings(RecoveryBytes)]
    /\ ecdsaSignature = [R |-> 0, S |-> 0, RecoveryID |-> 0]

\* A call of convertSignatureTSStoECDSA with the signature data of a party
\* that has finished: one recovery byte, computed by the party.
SignInit ==
    /\ createBlockCounter(StartHeight) /\ NoObserver /\ subscribeBlocks /\ NoSession
    /\ NoKeeps /\ NoContracts
    /\ sigPc = "called"
    /\ \E r, s \in ByteStrings(ComponentBytes) : \E rxOverN, ryOdd, sFlipped \in BOOLEAN :
          signatureData = [r |-> r, s |-> s,
                           recovery |-> <<PartyRecovery(rxOverN, ryOdd, sFlipped)>>]
    /\ ecdsaSignature = [R |-> 0, S |-> 0, RecoveryID |-> 0]

\* The conversion; indexing an empty recovery byte slice panics.
ConvertSignature ==
    /\ sigPc = "called"
    /\ IF signatureData.recovery = <<>>
       THEN sigPc' = "panicked" /\ UNCHANGED ecdsaSignature
       ELSE /\ ecdsaSignature' = convertSignatureTSStoECDSA(signatureData)
            /\ sigPc' = "returned"
    /\ UNCHANGED signatureData
    /\ UNCHANGED nonSigVars

ConvertNext == ConvertSignature

ConvertSpec == ConvertInit /\ [][ConvertNext]_vars

SignSpec == SignInit /\ [][ConvertNext]_vars

\* The shortest big-endian byte string of a natural number.
RECURSIVE ToBytes(_)
ToBytes(n) == IF n = 0 THEN <<>> ELSE Append(ToBytes(n \div 256), n % 256)

\* A byte string without its leading zero bytes.
RECURSIVE StripZeros(_)
StripZeros(bytes) ==
    IF bytes # <<>> /\ bytes[1] = 0 THEN StripZeros(Tail(bytes)) ELSE bytes

\* C19: the signature returned has R and S equal to the integers the party's
\* r and s denote, and RecoveryID equal to the value of the first recovery
\* byte (its low 8 bits, a number below 256); 27 is not added.
C19_SignatureIsPartyOutput ==
    sigPc = "returned" =>
        /\ ToBytes(ecdsaSignature.R) = StripZeros(signatureData.r)
        /\ ToBytes(ecdsaSignature.S) = StripZeros(signatureData.s)
        /\ ecdsaSignature.RecoveryID = signatureData.recovery[1]
        /\ ecdsaSignature.RecoveryID \in 0..255

\* A signature has been returned for components with a leading zero byte and
\* recovery bytes of which the first has all its bits set.
C19_Witness ==
    /\ sigPc = "returned"
    /\ Len(signatureData.r) = MaxBytes /\ signatureData.r[1] = 0
    /\ Len(signatureData.s) = MaxBytes /\ signatureData.s[1] = 255
    /\ Len(signatureData.recovery) = MaxBytes
    /\ signatureData.recovery[1] = 255
    /\ ecdsaSignature.RecoveryID = 255

RecoveryIdIsTheByte ==
    sigPc = "returned" =>
        (ecdsaSignature.RecoveryID \in {0, 1, 2, 3} <=> signatureData.recovery[1] \in {0, 1, 2, 3})

(***************************************************************************)
(* ECDSAKeep (solidity/contracts/ECDSAKeep.sol): setPublicKey, sign and    *)
(* submitSignature.  distributeETHToMembers and distributeERC20ToMembers   *)
(* touch none of the fields modelled here; honestThreshold is never read.  *)
(***************************************************************************)
nonKeepVars == <<bcVars, scVars, subVars, tssVars, sessVars, sigVars, inVars, lcVars, bondVars, bondingVars, rewVars, lateVars>>

\* Arguments of the transactions.
KeepOwner == "owner"
MemberLists == {<<"member1">>, <<"owner", "member1">>}
PublicKeys == {"keyA", "short"}
Digests == {1, 2}
\* block.number of a transaction: block 0 holds no transaction.
BlockNumbers == {1, 2}
Rs == {1, 2}
Ss == {1}
\* uint8 values of the last argument of submitSignature.
RecoveryIDs == {0, 1, 3, 4, 27}

\* Length in bytes of a public key: "short" lacks one byte, "" is the
\* value of the field before setPublicKey.
KeyLength(key) == IF key = "" THEN 0 ELSE IF key = "short" THEN 63 ELSE 64

\* address(uint160(uint256(keccak256(_publicKey)))): a hash, so distinct
\* keys have distinct addresses and none is the zero address.
publicKeyToAddress(key) ==
    IF key = "keyA" THEN 1 ELSE IF key = "keyB" THEN 2 ELSE 3

\* The ecrecover precompile: the zero address unless v is 27 or 28,
\* otherwise an address determined by all four arguments (a stand-in for
\* the public-key recovery; 0 when no key is recovered).
ecrecover(digest, v, r, s) ==
    IF v \notin {27, 28} THEN 0 ELSE (digest + r + s + v) % 3

\* uint8 _v = 27 + _recoveryID
VOf_NoOffset(recoveryID) == recoveryID % 256
VOf(recoveryID) == (27 + recoveryID) % 256

\* members.contains(msg.sender)
Contains_Anyone(list, a) == TRUE
Contains(list, a) == \E i \in 1..Len(list) : list[i] = a

isSigningInProgress_Never == FALSE
isSigningInProgress == currentSigningStartBlock # 0

\* The outcome of a transaction: the storage and the log stay as they
\* were when it reverts.
Reverts(fn, sender, args, reason) ==
    /\ keepCall' = [fn |-> fn, sender |-> sender, args |-> args, revert |-> reason]
    /\ UNCHANGED <<members, publicKey, currentSigningStartBlock, keepEvents>>

Succeeds(fn, sender, args) ==
    keepCall' = [fn |-> fn, sender |-> sender, args |-> args, revert |-> ""]

\* constructor(_owner, _members, _honestThreshold)
KeepInit ==
    /\ members \in MemberLists
    /\ publicKey = ""
    /\ currentSigningStartBlock = 0
    /\ keepEvents = <<>>
    /\ keepCall = [fn |-> "constructor", sender |-> KeepOwner, args |-> <<>>,
                   revert |-> ""]
    /\ createBlockCounter(StartHeight) /\ NoObserver /\ subscribeBlocks
    /\ NoSession /\ NoKeeps /\ NoSignature /\ NoInbound /\ NoManagedKeep /\ NoKeepBond /\ NoKeepBonding /\ NoRewards /\ NoLate

\* emit: the log of the model holds MaxKeepEvents events.
Emit(event) ==
    /\ Len(keepEvents) < MaxKeepEvents
    /\ keepEvents' = Append(keepEvents, event)

\* function setPublicKey(bytes calldata _publicKey) external onlyMember
setPublicKey(sender, key) ==
    /\ IF ~Contains(members, sender)
       THEN Reverts("setPublicKey", sender, <<key>>, "Caller is not the keep member")
       ELSE IF KeyLength(key) # 64
       THEN Reverts("setPublicKey", sender, <<key>>, "Public key must be 64 bytes long")
       ELSE /\ publicKey' = key
            /\ Emit(
                   [name |-> "PublicKeyPublished", publicKey |-> key])
            /\ Succeeds("setPublicKey", sender, <<key>>)
            /\ UNCHANGED <<members, currentSigningStartBlock>>
    /\ UNCHANGED nonKeepVars

\* function sign(bytes32 _digest) external onlyOwner, in a transaction of
\* block number blockNum (block.number).
sign(sender, digest, blockNum) ==
    /\ IF sender # KeepOwner
       THEN Reverts("sign", sender, <<digest>>, "Ownable: caller is not the owner")
       ELSE IF isSigningInProgress
       THEN Reverts("sign", sender, <<digest>>, "Signer is busy")
       ELSE /\ currentSigningStartBlock' = blockNum
            /\ Emit(
                   [name |-> "SignatureRequested", digest |-> digest])
            /\ Succeeds("sign", sender, <<digest>>)
            /\ UNCHANGED <<members, publicKey>>
    /\ UNCHANGED nonKeepVars

\* function submitSignature(bytes32 _digest, bytes32 _r, bytes32 _s,
\*                          uint8 _recoveryID) external onlyMember
submitSignature(sender, digest, r, s, recoveryID) ==
    LET args == <<digest, r, s, recoveryID>> IN
    /\ IF ~Contains(members, sender)
       THEN Reverts("submitSignature", sender, args, "Caller is not the keep member")
       ELSE IF ~isSigningInProgress
       THEN Reverts("submitSignature", sender, args,
                    "Signature has been already submitted")
       ELSE IF ~(recoveryID < 4)
       THEN Reverts("submitSignature", sender, args,
                    "Recovery ID must be one of {0, 1, 2, 3}")
       ELSE IF publicKeyToAddress(publicKey) # ecrecover(digest, VOf(recoveryID), r, s)
       THEN Reverts("submitSignature", sender, args, "Invalid signature")
       ELSE /\ currentSigningStartBlock' = 0
            /\ Emit(
                   [name |-> "SignatureSubmitted", digest |-> digest, r |-> r,
                    s |-> s, recoveryID |-> recoveryID])
            /\ Succeeds("submitSignature", sender, args)
            /\ UNCHANGED <<members, publicKey>>
    /\ UNCHANGED nonKeepVars

KeepNext ==
    \/ \E a \in Accounts, key \in PublicKeys : setPublicKey(a, key)
    \/ \E a \in Accounts, d \in Digests, b \in BlockNumbers :
           sign(a, d, b)
    \/ \E a \in Accounts, d \in Digests, r \in Rs, s \in Ss, id \in RecoveryIDs :
           submitSignature(a, d, r, s, id)

KeepSpec == KeepInit /\ [][KeepNext]_vars

(***************************************************************************)
(* Claims about ECDSAKeep.                                                 *)
(***************************************************************************)
\* An account of the member list; the last transaction of the keep is a
\* call of fn by a member.
IsMember(a) == a \in {members[i] : i \in DOMAIN members}
MemberCalled(fn) == keepCall.fn = fn /\ IsMember(keepCall.sender)

\* The signature in the last submitSignature is one of the keep's key when
\* ecrecover is given v.
RecoversKeepKey(v) ==
    ecrecover(keepCall.args[1], v, keepCall.args[2], keepCall.args[3])
        = publicKeyToAddress(publicKey)

\* C21 (as claimed): a signature of the keep's key submitted by a member
\* with v = recoveryId + 27 as the last argument, while a signing is in
\* progress, is accepted by the keep.
C21_VFormIsAccepted ==
    (/\ MemberCalled("submitSignature")
     /\ keepCall.args[4] \in {27, 28}
     /\ RecoversKeepKey(keepCall.args[4])
     /\ keepCall.revert # "")
        => ~isSigningInProgress

\* C21 (amended): the last argument of submitSignature is the recovery id
\* itself.  A member's submission is accepted exactly when a signing is in
\* progress, the argument is below 4 and ecrecover with v = 27 + argument
\* yields the address of the keep's key; an argument of the form
\* recoveryId + 27 reverts with "Recovery ID must be one of {0, 1, 2, 3}".
C21_RecoveryIdIsSubmitted ==
    MemberCalled("submitSignature") =>
        /\ keepCall.revert = "" =>
               /\ keepCall.args[4] < 4
               /\ RecoversKeepKey(27 + keepCall.args[4])
        /\ (/\ isSigningInProgress
            /\ keepCall.args[4] < 4
            /\ RecoversKeepKey(27 + keepCall.args[4])) => keepCall.revert = ""
        /\ (isSigningInProgress /\ keepCall.args[4] >= 27) =>
               keepCall.revert = "Recovery ID must be one of {0, 1, 2, 3}"

\* A member's submission with recovery id 0 or 1 has been accepted.
C21_Witness ==
    /\ MemberCalled("submitSignature")
    /\ keepCall.revert = ""
    /\ keepCall.args[4] \in {0, 1}
    /\ keepEvents[Len(keepEvents)].name = "SignatureSubmitted"

\* Positions of the events of one name in the log of the keep.
EventsNamed(name) == {i \in 1..Len(keepEvents) : keepEvents[i].name = name}

\* Requests that no submitted signature has answered.
Outstanding ==
    Cardinality(EventsNamed("SignatureRequested"))
        - Cardinality(EventsNamed("SignatureSubmitted"))

\* A transaction calling fn is executed by this step.
KeepCalls(fn) == keepCall'.fn = fn

\* C24: at most one signing is in progress: the requests not yet answered
\* by a submitted signature are none or one, and one exactly when
\* isSigningInProgress(); between two SignatureRequested events there is a
\* SignatureSubmitted event; a call of sign() while a request is unanswered
\* reverts ("Signer is busy" for the owner) and emits nothing.
C24_OneSigningAtATime ==
    /\ [](/\ Outstanding \in {0, 1}
          /\ isSigningInProgress <=> Outstanding = 1
          /\ \A i, j \in EventsNamed("SignatureRequested") :
                 i < j => \E k \in EventsNamed("SignatureSubmitted") : i < k /\ k < j)
    /\ [][(Outstanding = 1 /\ KeepCalls("sign")) =>
              /\ keepEvents' = keepEvents
              /\ keepCall'.sender = KeepOwner => keepCall'.revert = "Signer is busy"
              /\ keepCall'.revert # ""]_vars

\* A second request was accepted after the first was answered, and the
\* owner's next call of sign() has reverted.
C24_Witness ==
    /\ Cardinality(EventsNamed("SignatureRequested")) = 2
    /\ Cardinality(EventsNamed("SignatureSubmitted")) = 1
    /\ keepCall.fn = "sign"
    /\ keepCall.revert = "Signer is busy"

\* C25: submitSignature succeeds only when a signing is in progress, the
\* recovery id is below 4, the caller is a member and
\* ecrecover(digest, 27 + recoveryID, r, s) is the address of the keep's
\* public key; after a success no signing is in progress and one event has
\* been emitted, so a second submission reverts; a call that reverts leaves
\* the storage and the event log as they were.
C25_SubmitSignatureChecks ==
    [][KeepCalls("submitSignature") =>
          IF keepCall'.revert = ""
          THEN /\ isSigningInProgress
               /\ keepCall'.args[4] < 4
               /\ IsMember(keepCall'.sender)
               /\ ecrecover(keepCall'.args[1], 27 + keepCall'.args[4],
                            keepCall'.args[2], keepCall'.args[3])
                      = publicKeyToAddress(publicKey)
               /\ ~isSigningInProgress'
               /\ keepEvents' = Append(keepEvents,
                      [name |-> "SignatureSubmitted", digest |-> keepCall'.args[1],
                       r |-> keepCall'.args[2], s |-> keepCall'.args[3],
                       recoveryID |-> keepCall'.args[4]])
          ELSE /\ UNCHANGED <<members, publicKey, currentSigningStartBlock,
                              keepEvents>>
               /\ ~isSigningInProgress =>
                      keepCall'.revert \in {"Caller is not the keep member",
                                            "Signature has been already submitted"}]_vars

\* A signature has been accepted and a member's second submission of it has
\* reverted.
C25_Witness ==
    /\ MemberCalled("submitSignature")
    /\ keepCall.revert = "Signature has been already submitted"
    /\ Len(keepEvents) > 0
    /\ keepEvents[Len(keepEvents)].name = "SignatureSubmitted"
    /\ keepEvents[Len(keepEvents)].digest = keepCall.args[1]
    /\ keepEvents[Len(keepEvents)].r = keepCall.args[2]
    /\ keepEvents[Len(keepEvents)].recoveryID = keepCall.args[4]

\* The last SignatureRequested event before position k of the log.
RequestBefore(k) ==
    LET earlier == {i \in EventsNamed("SignatureRequested") : i < k} IN
    CHOOSE i \in earlier : \A j \in earlier : j <= i

\* C38: every SignatureSubmitted event answers the pending request: its
\* digest is the digest of the most recent SignatureRequested event, so a
\* signing request is never closed by a signature over another digest.
C38_SubmittedAnswersRequest ==
    \A k \in EventsNamed("SignatureSubmitted") :
        /\ \E i \in EventsNamed("SignatureRequested") : i < k
        /\ keepEvents[k].digest = keepEvents[RequestBefore(k)].digest

(***************************************************************************)
(* The receiving side of the network bridge.  The bridge is not part of    *)
(* the sources: initializeKeyGenerationParty and initializeSigningParty    *)
(* start it with the member list of the group (bridge.start,               *)
(* netBridge.connect); what it does with a delivered message is modelled   *)
(* from the specification (4.3): validation of the sender, suppression of  *)
(* duplicates, nothing accepted after close.                               *)
(***************************************************************************)
nonInVars == <<bcVars, scVars, subVars, tssVars, sessVars, sigVars, keepVars, lcVars, bondVars, bondingVars, rewVars, lateVars>>

PartyIds == {1, 2, 3}
SessionGroups == {<<1, 2>>, <<1, 2, 3>>}
\* The transport-level public key bound to a party id, and the keys a
\* transport message may carry.
Binding(p) == p + 10
TransportKeys == {Binding(p) : p \in PartyIds}
Messages ==
    [sender : PartyIds, key : TransportKeys, kind : {"broadcast"},
     round : {1}, payload : {"a", "b"}]

Elements(list) == {list[i] : i \in DOMAIN list}

\* The member list bridge.start is called with: groupMembersIDs.
StartMembers_AllParties(group) == <<1, 2, 3>>
StartMembers(group) == group

InboundInit ==
    /\ sessionGroup \in SessionGroups
    /\ bridgeMembers = <<>>
    /\ bridgeOpen = FALSE
    /\ forwarded = <<>>
    /\ lastDelivery = [msg |-> "none", fate |-> "none"]
    /\ createBlockCounter(StartHeight) /\ NoObserver /\ subscribeBlocks
    /\ NoSession /\ NoKeeps /\ NoSignature /\ NoKeepContract /\ NoManagedKeep /\ NoKeepBond /\ NoKeepBonding /\ NoRewards /\ NoLate

\* bridge.start(groupMembersIDs, party, params, outChan, errChan)
StartInbound ==
    /\ ~bridgeOpen /\ bridgeMembers = <<>>
    /\ bridgeMembers' = StartMembers(sessionGroup)
    /\ bridgeOpen' = TRUE
    /\ UNCHANGED <<sessionGroup, forwarded, lastDelivery>>
    /\ UNCHANGED nonInVars

\* The sender of a message is valid: its claimed party id belongs to the
\* group and the transport-level key is the one bound to that id.
ValidSender(msg) ==
    /\ msg.sender \in Elements(bridgeMembers)
    /\ msg.key = Binding(msg.sender)

\* The tuple by which duplicates are recognised.
DedupKey(msg) == <<msg.sender, msg.round, msg.kind, msg.payload>>

\* A transport channel delivers a message to the bridge's receiver.
Deliver(msg) ==
    /\ bridgeMembers # <<>>
    /\ IF ~bridgeOpen
       THEN lastDelivery' = [msg |-> msg, fate |-> "closed"] /\ UNCHANGED forwarded
       ELSE IF ~ValidSender(msg)
       THEN lastDelivery' = [msg |-> msg, fate |-> "dropped"] /\ UNCHANGED forwarded
       ELSE IF \E i \in DOMAIN forwarded : DedupKey(forwarded[i]) = DedupKey(msg)
       THEN lastDelivery' = [msg |-> msg, fate |-> "duplicate"] /\ UNCHANGED forwarded
       ELSE /\ Len(forwarded) < MaxForwarded
            /\ forwarded' = Append(forwarded, msg)
            /\ lastDelivery' = [msg |-> msg, fate |-> "forwarded"]
    /\ UNCHANGED <<sessionGroup, bridgeMembers, bridgeOpen>>
    /\ UNCHANGED nonInVars

\* close(): the handlers are unregistered.
CloseInbound ==
    /\ bridgeOpen
    /\ bridgeOpen' = FALSE
    /\ UNCHANGED <<sessionGroup, bridgeMembers, forwarded, lastDelivery>>
    /\ UNCHANGED nonInVars

InboundNext ==
    \/ StartInbound
    \/ \E msg \in Messages : Deliver(msg)
    \/ CloseInbound

InboundSpec == InboundInit /\ [][InboundNext]_vars

\* C22: every message the bridge has forwarded to the party claims a sender
\* that is a member of the session's group and carries the transport-level
\* public key bound to that party id; the delivery of any other message
\* forwards nothing: the message is dropped.
C22_OnlyMembersAreForwarded ==
    /\ [](\A i \in DOMAIN forwarded :
              /\ forwarded[i].sender \in Elements(sessionGroup)
              /\ forwarded[i].key = Binding(forwarded[i].sender))
    /\ [][(/\ lastDelivery'.fate # "none"
           /\ \/ lastDelivery'.msg.sender \notin Elements(sessionGroup)
              \/ lastDelivery'.msg.key # Binding(lastDelivery'.msg.sender))
              => /\ forwarded' = forwarded
                 /\ lastDelivery'.fate \in {"dropped", "closed"}]_vars

\* The bridge has forwarded a member's message, and has since dropped one
\* claiming a member's id under another party's key.
C22_Witness ==
    /\ Len(forwarded) > 0
    /\ lastDelivery.fate = "dropped"
    /\ lastDelivery.msg.sender \in Elements(sessionGroup)
    /\ lastDelivery.msg.key # Binding(lastDelivery.msg.sender)

(***************************************************************************)
(* The keep lifecycle manager, from the creation of a keep to the          *)
(* registration of its signature handler.  The manager is not part of the  *)
(* sources (they hold the ThresholdSigner it persists and the Storage      *)
(* configuration); it is modelled from the specification (5, steps 3c-3f,  *)
(* and 7: ChainError, PersistenceError).                                   *)
(***************************************************************************)
nonLcVars == <<bcVars, scVars, subVars, tssVars, sessVars, sigVars, keepVars, inVars, bondVars, bondingVars, rewVars, lateVars>>

LifecycleInit ==
    /\ keepState = [k \in ManagedKeeps |-> "created"]
    /\ disk = [k \in ManagedKeeps |-> "none"]
    /\ submitCalls = [k \in ManagedKeeps |-> 0]
    /\ writeFailed = [k \in ManagedKeeps |-> FALSE]
    /\ createBlockCounter(StartHeight) /\ NoObserver /\ subscribeBlocks
    /\ NoSession /\ NoKeeps /\ NoSignature /\ NoKeepContract /\ NoInbound /\ NoKeepBond /\ NoKeepBonding /\ NoRewards /\ NoLate

\* 3c: the DKG session ends with a Signer or with an error.
RunDkg(k, ok) ==
    /\ keepState[k] = "created"
    /\ keepState' = [keepState EXCEPT ![k] = IF ok THEN "signer" ELSE "failed"]
    /\ UNCHANGED <<disk, submitCalls, writeFailed>>
    /\ UNCHANGED nonLcVars

\* 3d: the Signer is written and synced to disk; a failed write is fatal
\* for the keep.
PersistSigner(k, ok) ==
    /\ keepState[k] = "signer"
    /\ IF ok
       THEN /\ disk' = [disk EXCEPT ![k] = "synced"]
            /\ keepState' = [keepState EXCEPT ![k] = "persisted"]
            /\ UNCHANGED writeFailed
       ELSE /\ writeFailed' = [writeFailed EXCEPT ![k] = TRUE]
            /\ keepState' = [keepState EXCEPT ![k] = "stuck"]
            /\ UNCHANGED disk
    /\ UNCHANGED submitCalls
    /\ UNCHANGED nonLcVars

\* The manager may publish the key of a keep.
MayPublish_WithSigner(k) == keepState[k] \in {"signer", "persisted"}
MayPublish(k) == keepState[k] = "persisted"

\* 3e: submitPublicKey; a transient failure is retried a bounded number of
\* times, a permanent one marks the keep stuck.
SubmitPublicKey(k, outcome) ==
    /\ MayPublish(k)
    /\ submitCalls[k] < MaxSubmitAttempts
    /\ submitCalls' = [submitCalls EXCEPT ![k] = @ + 1]
    /\ keepState' = [keepState EXCEPT ![k] =
           IF outcome = "ok" THEN "published"
           ELSE IF outcome = "permanent" \/ submitCalls[k] + 1 = MaxSubmitAttempts
           THEN "stuck"
           ELSE @]
    /\ UNCHANGED <<disk, writeFailed>>
    /\ UNCHANGED nonLcVars

\* 3f: the handler of signature requests is registered.
RegisterHandler(k) ==
    /\ keepState[k] = "published"
    /\ keepState' = [keepState EXCEPT ![k] = "registered"]
    /\ UNCHANGED <<disk, submitCalls, writeFailed>>
    /\ UNCHANGED nonLcVars

LifecycleNext ==
    \E k \in ManagedKeeps :
        \/ \E ok \in BOOLEAN : RunDkg(k, ok)
        \/ \E ok \in BOOLEAN : PersistSigner(k, ok)
        \/ \E outcome \in {"ok", "transient", "permanent"} : SubmitPublicKey(k, outcome)
        \/ RegisterHandler(k)

LifecycleSpec == LifecycleInit /\ [][LifecycleNext]_vars

\* C23: submitPublicKey is called for a keep only when the Signer of the
\* keep is synced to disk; a keep whose Signer write has failed is marked
\* stuck and submitPublicKey is never called for it.
C23_PersistBeforePublish ==
    /\ [](\A k \in ManagedKeeps :
              /\ submitCalls[k] > 0 => disk[k] = "synced"
              /\ writeFailed[k] => submitCalls[k] = 0 /\ keepState[k] = "stuck")
    /\ [][\A k \in ManagedKeeps :
              submitCalls'[k] > submitCalls[k] => disk[k] = "synced"]_vars

\* One keep has published its key after the write, the write of the other
\* has failed and the keep is stuck.
C23_Witness ==
    \E k, l \in ManagedKeeps :
        /\ keepState[k] = "published" /\ disk[k] = "synced" /\ submitCalls[k] > 1
        /\ writeFailed[l] /\ keepState[l] = "stuck"

(***************************************************************************)
(* KeepBond (solidity/contracts/KeepBond.sol): deposit and withdraw.       *)
(***************************************************************************)
nonBondVars == <<bcVars, scVars, subVars, tssVars, sessVars, sigVars, keepVars,
                 inVars, lcVars, bondingVars, rewVars, lateVars>>

\* Ether an operator holds when the contract is deployed, and the amounts
\* of a withdrawal.
StartBalances == {1, 2}
Amounts == {0, 1, 2, 3}

\* function availableForBonding(address operator) public view
availableForBonding(operator) == pot[operator]

BondInit ==
    /\ pot = [a \in Addresses |-> 0]
    /\ \E b \in StartBalances :
           etherBalance = [a \in Addresses |->
                              IF a = "operator1" THEN b
                              ELSE IF a = "operator2" THEN 1 ELSE 0]
    /\ depositors = {}
    /\ bondCall = [fn |-> "constructor", sender |-> "none", args |-> <<>>, revert |-> ""]
    /\ createBlockCounter(StartHeight) /\ NoObserver /\ subscribeBlocks
    /\ NoSession /\ NoKeeps /\ NoSignature
    /\ NoKeepContract /\ NoInbound /\ NoManagedKeep /\ NoKeepBonding /\ NoRewards /\ NoLate

\* pot[msg.sender] += msg.value
Credit_ToEveryone(sender, value) == [a \in Addresses |-> Uint(pot[a] + value)]
Credit(sender, value) == [pot EXCEPT ![sender] = Uint(@ + value)]

\* function deposit() external payable: msg.value moves from the sender to
\* the contract.
deposit(sender, value) ==
    /\ value <= etherBalance[sender]
    /\ etherBalance' = [etherBalance EXCEPT ![sender] = @ - value,
                                            !["KeepBond"] = @ + value]
    /\ pot' = Credit(sender, value)
    /\ depositors' = depositors \cup {sender}
    /\ bondCall' = [fn |-> "deposit", sender |-> sender, args |-> <<value>>,
                    revert |-> ""]
    /\ UNCHANGED nonBondVars

\* function withdraw(uint256 amount, address payable destination) external.
\* destination.transfer(amount) reverts the transaction when the
\* destination does not accept the ether.
withdraw(sender, amount, destination) ==
    LET args == <<amount, destination>> IN
    /\ IF ~(availableForBonding(sender) >= amount)
       THEN /\ bondCall' = [fn |-> "withdraw", sender |-> sender, args |-> args,
                            revert |-> "Insufficient pot"]
            /\ UNCHANGED <<pot, etherBalance>>
       ELSE IF destination \in {"rejecting", "KeepBond"}
       THEN /\ bondCall' = [fn |-> "withdraw", sender |-> sender, args |-> args,
                            revert |-> "transfer"]
            /\ UNCHANGED <<pot, etherBalance>>
       ELSE /\ pot' = [pot EXCEPT ![sender] = Uint(@ - amount)]
            /\ etherBalance' = [[etherBalance EXCEPT !["KeepBond"] = @ - amount]
                                    EXCEPT ![destination] = @ + amount]
            /\ bondCall' = [fn |-> "withdraw", sender |-> sender, args |-> args,
                            revert |-> ""]
    /\ UNCHANGED depositors
    /\ UNCHANGED nonBondVars

BondNext ==
    \/ \E a \in Operators, value \in 0..2 : deposit(a, value)
    \/ \E a \in Operators, amount \in Amounts, dest \in Addresses :
           withdraw(a, amount, dest)

BondSpec == BondInit /\ [][BondNext]_vars

nonBondingVars == <<bcVars, scVars, subVars, tssVars, sessVars, sigVars, keepVars,
                    inVars, lcVars, rewVars, lateVars, pot, depositors, bondCall>>

\* function availableBondingValue(address operator) public view
availableBondingValue(operator) == unbondedValue[operator]

BondingInit ==
    /\ unbondedValue = [a \in Addresses |-> 0]
    /\ lockedBonds = [b \in BondIDs |-> 0]
    /\ bondAssignments = [a \in Assignments |-> <<>>]
    /\ bondingCall = [fn |-> "constructor", sender |-> "none", args |-> <<>>,
                      revert |-> ""]
    /\ \E b \in StartBalances :
           etherBalance = [a \in Addresses |-> IF a = "operator1" THEN b ELSE 0]
    /\ pot = [a \in Addresses |-> 0]
    /\ depositors = {}
    /\ bondCall = [fn |-> "none", sender |-> "none", args |-> <<>>, revert |-> ""]
    /\ createBlockCounter(StartHeight) /\ NoObserver /\ subscribeBlocks
    /\ NoSession /\ NoKeeps /\ NoSignature
    /\ NoKeepContract /\ NoInbound /\ NoManagedKeep /\ NoRewards /\ NoLate

BondingReverts(fn, sender, args, reason) ==
    /\ bondingCall' = [fn |-> fn, sender |-> sender, args |-> args, revert |-> reason]
    /\ UNCHANGED <<unbondedValue, lockedBonds, bondAssignments, etherBalance>>

BondingSucceeds(fn, sender, args) ==
    bondingCall' = [fn |-> fn, sender |-> sender, args |-> args, revert |-> ""]

\* function deposit(address operator) external payable
depositFor(sender, operator, value) ==
    /\ value <= etherBalance[sender]
    /\ etherBalance' = [etherBalance EXCEPT ![sender] = @ - value,
                                            !["KeepBonding"] = @ + value]
    /\ unbondedValue' = [unbondedValue EXCEPT ![operator] = Uint(@ + value)]
    /\ BondingSucceeds("deposit", sender, <<operator, value>>)
    /\ UNCHANGED <<lockedBonds, bondAssignments>>
    /\ UNCHANGED nonBondingVars

\* function withdraw(uint256 amount, address payable destination) external
withdrawUnbonded(sender, amount, destination) ==
    LET args == <<amount, destination>> IN
    /\ IF ~(availableBondingValue(sender) >= amount)
       THEN BondingReverts("withdraw", sender, args, "Insufficient unbonded value")
       ELSE IF destination \in {"rejecting", "KeepBond", "KeepBonding"}
       THEN BondingReverts("withdraw", sender, args, "transfer")
       ELSE /\ unbondedValue' = [unbondedValue EXCEPT ![sender] = Uint(@ - amount)]
            /\ etherBalance' = [[etherBalance EXCEPT !["KeepBonding"] = @ - amount]
                                    EXCEPT ![destination] = @ + amount]
            /\ BondingSucceeds("withdraw", sender, args)
            /\ UNCHANGED <<lockedBonds, bondAssignments>>
    /\ UNCHANGED nonBondingVars

\* modifier onlyAuthorized(): "TODO: Add authorization checks."; the body
\* is run for every caller.
onlyAuthorized(sender) == TRUE

\* function createBond(address operator, uint256 ref, uint256 amount)
\*     public onlyAuthorized
createBond(sender, operator, ref, amount) ==
    LET args == <<operator, ref, amount>>
        holder == sender
        bondID == <<operator, holder, ref>>
        assignment == <<operator, holder>> IN
    /\ IF ~onlyAuthorized(sender)
       THEN BondingReverts("createBond", sender, args, "Caller is not authorized")
       ELSE IF ~(availableBondingValue(operator) >= amount)
       THEN BondingReverts("createBond", sender, args, "Insufficient pot")
       ELSE /\ Len(bondAssignments[assignment]) < MaxBonds
            /\ unbondedValue' = [unbondedValue EXCEPT ![operator] = Uint(@ - amount)]
            /\ lockedBonds' = [lockedBonds EXCEPT ![bondID] = Uint(@ + amount)]
            /\ bondAssignments' = [bondAssignments EXCEPT ![assignment] = Append(@, ref)]
            /\ BondingSucceeds("createBond", sender, args)
            /\ UNCHANGED etherBalance
    /\ UNCHANGED nonBondingVars

BondingNext ==
    \/ \E a, o \in Operators, value \in 0..2 : depositFor(a, o, value)
    \/ \E a \in Operators, amount \in Amounts, dest \in {"other", "rejecting"} :
           withdrawUnbonded(a, amount, dest)
    \/ \E h \in Holders, o \in Operators, ref \in BondRefs, amount \in Amounts :
           createBond(h, o, ref, amount)

BondingSpec == BondingInit /\ [][BondingNext]_vars

\* The contracts authorized to create bonds.
AuthorizedContracts == {"factory"}

\* C27: createBond succeeds only for an authorized contract, which becomes
\* the holder of the bond; a call by any other address reverts and changes
\* nothing.
C27_OnlyAuthorizedCreatesBond ==
    [][bondingCall'.fn = "createBond" =>
          /\ bondingCall'.revert = "" =>
                 /\ bondingCall'.sender \in AuthorizedContracts
                 /\ \E o \in Operators, ref \in BondRefs :
                        /\ lockedBonds'[<<o, bondingCall'.sender, ref>>]
                               = lockedBonds[<<o, bondingCall'.sender, ref>>]
                                     + bondingCall'.args[3]
                        /\ bondingCall'.args[1] = o /\ bondingCall'.args[2] = ref
          /\ bondingCall'.sender \notin AuthorizedContracts =>
                 /\ bondingCall'.revert # ""
                 /\ UNCHANGED <<unbondedValue, lockedBonds, bondAssignments>>]_vars

(***************************************************************************)
(* ECDSAKeepRewards (solidity/contracts/ECDSAKeepRewards.sol): the search  *)
(* for the endpoint of an interval.  The factory is known to the contract  *)
(* by its interface (getKeepCount, getKeepAtIndex, getCreationTime): it    *)
(* opens keeps one after another, each with the timestamp of its block.    *)
(* A keep is named by its index in the factory.                            *)
(***************************************************************************)
nonRewVars == <<bcVars, scVars, subVars, tssVars, sessVars, sigVars, keepVars,
                inVars, lcVars, bondVars, bondingVars, lateVars>>

\* IBondedECDSAKeepFactory
getKeepCount == Len(creationTimes)
getKeepAtIndex(index) == index
getCreationTime(keep) ==
    IF keep \in 0..(getKeepCount - 1) THEN creationTimes[keep + 1] ELSE 0

\* midTime >= targetTime
NotBefore_Strictly(time, targetTime) == time > targetTime
NotBefore(time, targetTime) == time >= targetTime

\* function _find(lb, lbTime, ub, ubTime, targetTime): the loop.
RECURSIVE _find(_, _, _, _, _)
_find(lb, lbTime, ub, ubTime, targetTime) ==
    LET len == ub - lb IN
    IF len > 1
    THEN LET mid == lb + (len \div 2)
             midTime == getCreationTime(getKeepAtIndex(mid)) IN
         IF NotBefore(midTime, targetTime)
         THEN _find(lb, lbTime, mid, midTime, targetTime)
         ELSE _find(mid, midTime, ub, ubTime, targetTime)
    ELSE ub

\* function _findEndpoint(uint256 intervalEndpoint): the require ...
EndpointInFuture(intervalEndpoint) == ~(intervalEndpoint <= blockTimestamp)

\* ... and the value returned when the require holds.
_findEndpoint(intervalEndpoint) ==
    LET keepCount == getKeepCount IN
    IF keepCount = 0 THEN 0
    ELSE LET lb == 0
             timestampLB == getCreationTime(getKeepAtIndex(lb)) IN
         IF timestampLB >= intervalEndpoint THEN 0
         ELSE LET ub == keepCount - 1
                  timestampUB == getCreationTime(getKeepAtIndex(ub)) IN
              IF timestampUB < intervalEndpoint THEN keepCount
              ELSE _find(lb, timestampLB, ub, timestampUB, intervalEndpoint)

\* The factory is deployed and has opened no keep.
FindInit ==
    /\ creationTimes = <<>>
    /\ blockTimestamp = 1
    /\ keepStatus = <<>>
    /\ tokenBalance = [h \in {"rewards", "funder", "keeps"} |-> 0]
    /\ EmptyRewards
    /\ rewardsCall = [fn |-> "none", args |-> <<>>, revert |-> ""]
    /\ findArg = 0
    /\ findResult = [revert |-> "", value |-> 0]
    /\ createBlockCounter(StartHeight) /\ NoObserver /\ subscribeBlocks
    /\ NoSession /\ NoKeeps /\ NoSignature
    /\ NoKeepContract /\ NoInbound /\ NoManagedKeep /\ NoKeepBond /\ NoKeepBonding /\ NoLate

\* The factory opens a keep in the current block, up to a number of keeps.
OpenKeepUpTo(limit) ==
    /\ getKeepCount < limit
    /\ creationTimes' = Append(creationTimes, blockTimestamp)
    /\ keepStatus' = Append(keepStatus, "active")
    /\ UNCHANGED <<blockTimestamp, tokenBalance, totalRewards, unallocatedRewards,
                   paidOutRewards, intervalAllocations, claimed, keepsByInterval,
                   intervalKeepsProcessed, processed, rewardsCall, findArg, findResult>>
    /\ UNCHANGED nonRewVars

\* A block with a later timestamp is mined.
NextBlock ==
    /\ blockTimestamp < MaxTimestamp
    /\ blockTimestamp' = blockTimestamp + 1
    /\ UNCHANGED <<creationTimes, keepStatus, tokenBalance, totalRewards,
                   unallocatedRewards, paidOutRewards, intervalAllocations, claimed,
                   keepsByInterval, intervalKeepsProcessed, processed, rewardsCall,
                   findArg, findResult>>
    /\ UNCHANGED nonRewVars

\* A call of _findEndpoint(intervalEndpoint).
CallFindEndpoint(intervalEndpoint) ==
    /\ findArg' = intervalEndpoint
    /\ findResult' =
           IF EndpointInFuture(intervalEndpoint)
           THEN [revert |-> "interval hasn't ended yet", value |-> 0]
           ELSE [revert |-> "", value |-> _findEndpoint(intervalEndpoint)]
    /\ UNCHANGED <<creationTimes, blockTimestamp, keepStatus, tokenBalance,
                   totalRewards, unallocatedRewards, paidOutRewards,
                   intervalAllocations, claimed, keepsByInterval,
                   intervalKeepsProcessed, processed, rewardsCall>>
    /\ UNCHANGED nonRewVars

FindNext ==
    \/ OpenKeepUpTo(MaxKeepCount)
    \/ NextBlock
    \/ \E t \in 0..(MaxTimestamp + 1) : CallFindEndpoint(t)

FindSpec == FindInit /\ [][FindNext]_vars

\* Keeps created strictly before a time.
CreatedBefore(time) == {i \in 0..(getKeepCount - 1) : getCreationTime(i) < time}

\* C30: a call of _findEndpoint(T) with T not after block.timestamp returns
\* the number of keeps created strictly before T, which is the first index
\* whose creation time is T or later, the keep count when there is none,
\* and 0 when the factory has no keeps; this also with keeps of equal
\* creation times.  With T after block.timestamp the call reverts.
\* (A call is a step that changes the recorded argument or result.)
C30_FindEndpointCountsKeepsBefore ==
    [][<<findArg, findResult>>' # <<findArg, findResult>> =>
          IF findArg' > blockTimestamp'
          THEN findResult'.revert = "interval hasn't ended yet"
          ELSE /\ findResult'.revert = ""
               /\ findResult'.value = Cardinality(CreatedBefore(findArg)')
               /\ \A i \in 0..(getKeepCount' - 1) :
                      (getCreationTime(i)' >= findArg') <=> (i >= findResult'.value)
               /\ getKeepCount' = 0 => findResult'.value = 0]_vars

\* A search that ran the loop over keeps with equal creation times.
C30_Witness ==
    /\ getKeepCount >= 4
    /\ \E i \in 0..(getKeepCount - 2) : getCreationTime(i) = getCreationTime(i + 1)
    /\ findArg <= blockTimestamp
    /\ findResult.revert = ""
    /\ findResult.value \in 2..(getKeepCount - 1)
    /\ findResult.value = Cardinality(CreatedBefore(findArg))
    /\ getCreationTime(findResult.value) = getCreationTime(findResult.value - 1) + 1
    /\ getCreationTime(findResult.value - 1) = getCreationTime(findResult.value - 2)

(***************************************************************************)
(* ECDSAKeepRewards: funding, allocation of finished intervals, and the    *)
(* processing of closed and terminated keeps.  Amounts are far below       *)
(* 2^256, so uint256 arithmetic is integer arithmetic here.                *)
(***************************************************************************)
\* Constructor arguments.
termLength == 1
firstIntervalStart == 1
minimumKeepsPerInterval == 2
intervalWeights == <<20, 50, 25, 50>>

\* Tokens minted to the funder, and the amounts it sends.
FunderTokens == 100
FundingValues == {0, 60}
TransferValues == {40}

\* The keeps the factory opens while the rewards contract is watched, and
\* the addresses it is called with: a keep's address is not recognized
\* before the factory has opened it.
MaxRewardedKeeps == 1
RewardedKeeps == 0..(MaxRewardedKeeps - 1)

rewardsStorage == <<totalRewards, unallocatedRewards, paidOutRewards,
                    intervalAllocations, claimed, keepsByInterval,
                    intervalKeepsProcessed>>

intervalOf(timestamp) ==
    IF timestamp < firstIntervalStart THEN 0
    ELSE (timestamp - firstIntervalStart) \div termLength

startOf(interval) == firstIntervalStart + (interval * termLength)

endOf(interval) == startOf(interval + 1)

_isFinished(interval) == blockTimestamp >= endOf(interval)

\* _getEndpoint: the value returned, from the cache or from the search ...
_getEndpoint(interval) ==
    LET maybeEndpoint == keepsByInterval[interval] IN
    IF maybeEndpoint = 0 THEN _findEndpoint(endOf(interval)) ELSE maybeEndpoint

\* ... and the cache after the calls of _getEndpoint for a set of intervals.
CacheEndpoints(touched) ==
    [i \in DOMAIN keepsByInterval |->
        IF i \in touched /\ keepsByInterval[i] = 0
        THEN _findEndpoint(endOf(i))
        ELSE keepsByInterval[i]]

_getPreviousEndpoint(interval) ==
    IF interval = 0 THEN 0 ELSE _getEndpoint(interval - 1)

_keepsInInterval(interval) == _getEndpoint(interval) - _getPreviousEndpoint(interval)

_keepCountAdjustment(interval) ==
    LET minimumKeeps == minimumKeepsPerInterval
        keepCount == _keepsInInterval(interval) IN
    IF keepCount >= minimumKeeps THEN 100
    ELSE (keepCount * 100) \div minimumKeeps

_getIntervalCount == Len(intervalWeights)

_getIntervalWeight(interval) ==
    IF interval < _getIntervalCount THEN intervalWeights[interval + 1] ELSE 100

\* The functions below read unallocatedRewards, which _allocateRewards
\* changes between its recursive calls: it is passed as `unallocated`.
_baseAllocation(unallocated, interval) ==
    (unallocated * _getIntervalWeight(interval)) \div 100

_adjustedAllocation(unallocated, interval) ==
    (_baseAllocation(unallocated, interval) * _keepCountAdjustment(interval)) \div 100

_rewardPerKeep(unallocated, interval) ==
    LET __adjustedAllocation == _adjustedAllocation(unallocated, interval) IN
    IF __adjustedAllocation = 0 THEN 0
    ELSE __adjustedAllocation \div _keepsInInterval(interval)

EarlierUnallocated_Ignored(interval, allocatedIntervals) == FALSE

\* interval > allocatedIntervals: previous intervals are allocated first
EarlierUnallocated(interval, allocatedIntervals) == interval > allocatedIntervals

\* _allocateRewards(interval) on a finished interval that is not allocated:
\* unallocatedRewards and intervalAllocations after it.
RECURSIVE _allocateRewards(_, _, _)
_allocateRewards(unallocated, allocations, interval) ==
    LET previous == IF EarlierUnallocated(interval, Len(allocations))
                    THEN _allocateRewards(unallocated, allocations, interval - 1)
                    ELSE [unallocatedRewards |-> unallocated,
                          intervalAllocations |-> allocations]
        keepCount == _keepsInInterval(interval)
        perKeepAllocation == _rewardPerKeep(previous.unallocatedRewards, interval)
        totalAllocation == keepCount * perKeepAllocation
    IN  [unallocatedRewards |-> previous.unallocatedRewards - totalAllocation,
         intervalAllocations |-> Append(previous.intervalAllocations, totalAllocation)]

_isAllocated(interval) == interval < Len(intervalAllocations)

_unpaidRewards == totalRewards - paidOutRewards

_rewardClaimed_Never(_keep) == FALSE
_rewardClaimed(_keep) == _keep \in claimed

_isClosed(_keep) == _keep < Len(keepStatus) /\ keepStatus[_keep + 1] = "closed"

_isTerminated(_keep) == _keep < Len(keepStatus) /\ keepStatus[_keep + 1] = "terminated"

_recognizedByFactory(_keep) == getCreationTime(_keep) # 0

\* A transaction that reverts: storage and balances are as before.
RewardsReverts(fn, args, reason) ==
    /\ rewardsCall' = [fn |-> fn, args |-> args, revert |-> reason]
    /\ UNCHANGED <<rewardsStorage, tokenBalance, processed>>

\* The rewards contract is deployed, the funder holds its tokens, and the
\* factory has opened no keep.
RewardsInit ==
    /\ creationTimes = <<>>
    /\ blockTimestamp = 1
    /\ keepStatus = <<>>
    /\ tokenBalance = [h \in {"rewards", "funder", "keeps"} |->
                          IF h = "funder" THEN FunderTokens ELSE 0]
    /\ EmptyRewards
    /\ rewardsCall = [fn |-> "none", args |-> <<>>, revert |-> ""]
    /\ findArg = 0
    /\ findResult = [revert |-> "", value |-> 0]
    /\ createBlockCounter(StartHeight) /\ NoObserver /\ subscribeBlocks
    /\ NoSession /\ NoKeeps /\ NoSignature
    /\ NoKeepContract /\ NoInbound /\ NoManagedKeep /\ NoKeepBond /\ NoKeepBonding /\ NoLate

\* currentBalance.sub(beforeBalance)
addedBalance_Nothing(currentBalance, beforeBalance) == 0
addedBalance(currentBalance, beforeBalance) == currentBalance - beforeBalance

\* token.approveAndCall(rewards, value) by the funder: receiveApproval.
receiveApproval(_value) ==
    IF _value > tokenBalance["funder"]
    THEN RewardsReverts("receiveApproval", <<_value>>, "SafeERC20: low-level call failed")
    ELSE LET currentBalance == tokenBalance["rewards"] + _value
             beforeBalance == _unpaidRewards IN
         IF ~(currentBalance >= beforeBalance)
         THEN RewardsReverts("receiveApproval", <<_value>>, "Reward contract has lost tokens")
         ELSE LET added == addedBalance(currentBalance, beforeBalance) IN
              /\ tokenBalance' = [tokenBalance EXCEPT !["funder"] = @ - _value,
                                                      !["rewards"] = @ + _value]
              /\ totalRewards' = totalRewards + added
              /\ unallocatedRewards' = unallocatedRewards + added
              /\ rewardsCall' = [fn |-> "receiveApproval", args |-> <<_value>>,
                                 revert |-> ""]
              /\ UNCHANGED <<paidOutRewards, intervalAllocations, claimed,
                             keepsByInterval, intervalKeepsProcessed, processed>>

\* token.transfer(rewards, value) by the funder: no code of the rewards
\* contract runs.
DirectTransfer(_value) ==
    /\ _value <= tokenBalance["funder"]
    /\ tokenBalance' = [tokenBalance EXCEPT !["funder"] = @ - _value,
                                            !["rewards"] = @ + _value]
    /\ UNCHANGED <<rewardsStorage, processed, rewardsCall>>

\* _processKeep(eligible, keepAddress), after the modifiers of its caller.
_processKeep(fn, eligible, keepAddress) ==
    LET creationTime == getCreationTime(keepAddress)
        interval == intervalOf(creationTime) IN
    IF ~_isFinished(interval)
    THEN RewardsReverts(fn, <<keepAddress>>, "Interval hasn't ended yet")
    ELSE LET allocated == IF ~_isAllocated(interval)
                          THEN _allocateRewards(unallocatedRewards,
                                                intervalAllocations, interval)
                          ELSE [unallocatedRewards |-> unallocatedRewards,
                                intervalAllocations |-> intervalAllocations]
             touched == IF ~_isAllocated(interval)
                        THEN {i \in 0..interval : i + 1 >= Len(intervalAllocations)}
                        ELSE {i \in 0..interval : i + 1 >= interval}
             allocation == allocated.intervalAllocations[interval + 1]
             __keepsInInterval == _keepsInInterval(interval)
             perKeepReward == allocation \div __keepsInInterval
             processedKeeps == intervalKeepsProcessed[interval] IN
         /\ intervalAllocations' = allocated.intervalAllocations
         /\ keepsByInterval' = CacheEndpoints(touched)
         /\ claimed' = claimed \cup {keepAddress}
         /\ intervalKeepsProcessed' =
                [intervalKeepsProcessed EXCEPT ![interval] = processedKeeps + 1]
         /\ processed' = [processed EXCEPT ![keepAddress] = @ + 1]
         /\ rewardsCall' = [fn |-> fn, args |-> <<keepAddress>>, revert |-> ""]
         /\ UNCHANGED totalRewards
         /\ IF eligible
            THEN /\ paidOutRewards' = paidOutRewards + perKeepReward
                 /\ unallocatedRewards' = allocated.unallocatedRewards
                 \* the keep takes the approved tokens and hands them out
                 /\ tokenBalance' = [tokenBalance EXCEPT !["rewards"] = @ - perKeepReward,
                                                         !["keeps"] = @ + perKeepReward]
            ELSE /\ unallocatedRewards' = allocated.unallocatedRewards + perKeepReward
                 /\ UNCHANGED <<paidOutRewards, tokenBalance>>

receiveReward(keepAddress) ==
    IF ~_recognizedByFactory(keepAddress)
    THEN RewardsReverts("receiveReward", <<keepAddress>>,
                        "Keep address not recognized by factory")
    ELSE IF ~(~_rewardClaimed(keepAddress))
    THEN RewardsReverts("receiveReward", <<keepAddress>>, "Rewards already claimed")
    ELSE IF ~_isClosed(keepAddress)
    THEN RewardsReverts("receiveReward", <<keepAddress>>, "Keep is not closed")
    ELSE _processKeep("receiveReward", TRUE, keepAddress)

reportTermination(keepAddress) ==
    IF ~_recognizedByFactory(keepAddress)
    THEN RewardsReverts("reportTermination", <<keepAddress>>,
                        "Keep address not recognized by factory")
    ELSE IF ~(~_rewardClaimed(keepAddress))
    THEN RewardsReverts("reportTermination", <<keepAddress>>, "Rewards already claimed")
    ELSE IF ~_isTerminated(keepAddress)
    THEN RewardsReverts("reportTermination", <<keepAddress>>, "Keep is not terminated")
    ELSE _processKeep("reportTermination", FALSE, keepAddress)

\* A keep of the factory closes, or is terminated.
KeepEnds(_keep, status) ==
    /\ _keep < Len(keepStatus)
    /\ keepStatus[_keep + 1] = "active"
    /\ keepStatus' = [keepStatus EXCEPT ![_keep + 1] = status]
    /\ UNCHANGED <<creationTimes, blockTimestamp, tokenBalance, rewardsStorage,
                   processed, rewardsCall, findArg, findResult>>
    /\ UNCHANGED nonRewVars

RewardsCall(transaction) ==
    /\ transaction
    /\ UNCHANGED <<creationTimes, blockTimestamp, keepStatus, findArg, findResult>>
    /\ UNCHANGED nonRewVars

RewardsNext ==
    \/ OpenKeepUpTo(MaxRewardedKeeps)
    \/ NextBlock
    \/ \E k \in RewardedKeeps, status \in {"closed", "terminated"} : KeepEnds(k, status)
    \/ \E v \in FundingValues : RewardsCall(receiveApproval(v))
    \/ \E v \in TransferValues : RewardsCall(DirectTransfer(v))
    \/ \E k \in RewardedKeeps : RewardsCall(receiveReward(k))
    \/ \E k \in RewardedKeeps : RewardsCall(reportTermination(k))

RewardsSpec == RewardsInit /\ [][RewardsNext]_vars

(***************************************************************************)
(* Claims about ECDSAKeepRewards.                                          *)
(***************************************************************************)
\* The step is a transaction calling receiveReward or reportTermination for
\* a keep.
ProcessingCall(keep) ==
    /\ rewardsCall' # rewardsCall
    /\ rewardsCall'.fn \in {"receiveReward", "reportTermination"}
    /\ rewardsCall'.args = <<keep>>

\* C28: a keep is processed at most once.  Once receiveReward or
\* reportTermination has succeeded for a keep, every later receiveReward or
\* reportTermination for it reverts with "Rewards already claimed" and
\* changes neither the storage nor a balance; so the keep's reward is not
\* paid twice, and not both paid and returned to the unallocated pool.
C28_KeepProcessedOnce ==
    /\ [](\A k \in KeepIndexes :
             /\ processed[k] <= 1
             /\ (processed[k] = 1) <=> (k \in claimed))
    /\ [][\A k \in KeepIndexes :
             (processed[k] >= 1 /\ ProcessingCall(k)) =>
                 /\ rewardsCall'.revert = "Rewards already claimed"
                 /\ UNCHANGED <<rewardsStorage, tokenBalance, processed>>]_vars

\* The termination of a keep that had closed and been paid was reported.
C28_Witness ==
    /\ rewardsCall.revert = "Rewards already claimed"
    /\ rewardsCall.fn = "reportTermination"
    /\ processed[rewardsCall.args[1]] = 1
    /\ _isClosed(rewardsCall.args[1])
    /\ paidOutRewards > 0
    /\ tokenBalance["keeps"] = paidOutRewards

\* Tokens the contract holds beyond its unpaid rewards.
Uncollected == tokenBalance["rewards"] - (totalRewards - paidOutRewards)

RecordedHead(block) ==
    /\ ReceiveBlock(block)
    /\ staleHead' = (staleHead \/ block <= latestBlockHeight)
    /\ UNCHANGED <<scVars, subVars, tssVars, sessVars, sigVars, keepVars, inVars,
                   lcVars, bondVars, bondingVars, rewVars, localVars, uniVars>>

HeadNext ==
    \/ \E block \in Heights : RecordedHead(block)
    \/ receiveBlocks
    \/ Callers

HeadSpec == Init /\ [][HeadNext]_vars

\* C35: a head notification whose height is equal to or lower than
\* latestBlockHeight has no effect on the block counter: latestBlockHeight,
\* the waiter map and the watcher list are unchanged, no waiter is fired,
\* no height is delivered to a watcher, and receiveBlocks waits for the
\* next notification.
C35_StaleHeadHasNoEffect ==
    [][staleHead' # staleHead =>
          /\ UNCHANGED <<latestBlockHeight, waiters, watchers>>
          /\ UNCHANGED <<waiterObj, watcherObj>>
          /\ pc' = "recv"
          /\ UNCHANGED <<receivedBlockHeight, unseenBlockNumber, watchersCopy,
                         watcherIdx>>]_vars

\* A notification not above latestBlockHeight was received while a waiter
\* was registered for a later height and a watcher was ready to receive.
C35_Witness ==
    /\ staleHead
    /\ pc = "recv"
    /\ latestBlockHeight >= 2
    /\ \A i \in WaiterIds : waiterObj[i].state # "fired"
    /\ \E i \in WaiterIds : waiterObj[i].state = "registered"
    /\ \E w \in WatcherIds :
           /\ watcherObj[w].receiving
           /\ ~watcherObj[w].ctxErr
           /\ w \in SeqToSet(watchers)

(***************************************************************************)
(* Claims about the closing of watcher channels and the subscription loop. *)
(***************************************************************************)
\* receiveBlocks is about to send on the channel of a watcher that it has
\* closed.
SendsOnClosed(w) ==
    /\ AtWatcher(w)
    /\ ~watcherObj[w].ctxErr
    /\ watcherObj[w].closed

\* The part of C36 about sends: a closed channel belongs to a cancelled
\* watcher, and the loop sends only to watchers that are not cancelled.
NoSendOnClosedChannel == \A w \in WatcherIds : ~SendsOnClosed(w)

\* C36: a watcher's channel is closed at most once: under every
\* interleaving of the cancellation, the removal of the watcher from the
\* list and the processing of consecutive heights, the counter never closes
\* a closed watcher channel (which crashes it) and never sends on one.
C36_ChannelClosedAtMostOnce ==
    /\ pc # "panicked"
    /\ NoSendOnClosedChannel

\* Goroutines running the subscribe closure.
ActiveLoops == {s \in SubIds : subPc[s] # "none"}

\* C37: at most one subscription loop is active at any time.  The retry
\* goroutine starts a subscribe attempt only when no attempt is running,
\* and waits at <-errorChan exactly while one is; so no two subscription
\* loops push heights into the counter, whatever the failures.
C37_OneSubscriptionLoop ==
    /\ Cardinality(ActiveLoops) <= 1
    /\ Cardinality({s \in SubIds : subPc[s] = "push"}) <= 1
    /\ (retryPc = "waitErr") <=> (ActiveLoops # {})

\* The subscription fails while its loop is pushing a height that
\* receiveBlocks has not taken, the counter having processed heights.
C37_Witness ==
    /\ \E s \in SubIds : subPc[s] = "push" /\ subErr[s] /\ subHeader[s] > latestBlockHeight
    /\ latestBlockHeight >= 1
    /\ pc # "recv"
    /\ retryPc = "waitErr"

(***************************************************************************)
(* ECDSAKeepRewards: the allocation of intervals on its own.  The tests    *)
(* call _allocateRewards through allocateRewards(interval) of the stub     *)
(* contract; the factory opens keeps, time passes and the contract is      *)
(* funded in between.                                                      *)
(***************************************************************************)
\* Intervals read by _getEndpoint while _allocateRewards(interval) runs.
EndpointsRead(interval) ==
    {i \in 0..interval : i + 1 >= Len(intervalAllocations)}

\* allocateRewards(interval): _allocateRewards(interval) as a transaction.
allocateRewards(interval) ==
    IF ~_isFinished(interval)
    THEN RewardsReverts("allocateRewards", <<interval>>, "Interval hasn't ended yet")
    ELSE IF ~(~(interval < Len(intervalAllocations)))
    THEN RewardsReverts("allocateRewards", <<interval>>, "Interval already allocated")
    ELSE LET allocated == _allocateRewards(unallocatedRewards, intervalAllocations,
                                           interval) IN
         /\ unallocatedRewards' = allocated.unallocatedRewards
         /\ intervalAllocations' = allocated.intervalAllocations
         /\ keepsByInterval' = CacheEndpoints(EndpointsRead(interval))
         /\ rewardsCall' = [fn |-> "allocateRewards", args |-> <<interval>>,
                            revert |-> ""]
         /\ UNCHANGED <<tokenBalance, totalRewards, paidOutRewards, claimed,
                        intervalKeepsProcessed, processed>>

AllocNext ==
    \/ OpenKeepUpTo(MaxKeepCount)
    \/ NextBlock
    \/ \E v \in FundingValues : RewardsCall(receiveApproval(v))
    \/ \E i \in Intervals : RewardsCall(allocateRewards(i))

AllocSpec == RewardsInit /\ [][AllocNext]_vars

\* The allocation of the first unallocated interval alone, as a call of
\* _allocateRewards for that interval makes it.
AllocateNext(state) ==
    LET interval == Len(state.intervalAllocations)
        totalAllocation == _keepsInInterval(interval)
                               * _rewardPerKeep(state.unallocatedRewards, interval)
    IN  [unallocatedRewards |-> state.unallocatedRewards - totalAllocation,
         intervalAllocations |-> Append(state.intervalAllocations, totalAllocation)]

\* The intervals up to one allocated one at a time, in ascending order.
RECURSIVE AllocateAscending(_, _)
AllocateAscending(state, upTo) ==
    IF Len(state.intervalAllocations) > upTo THEN state
    ELSE AllocateAscending(AllocateNext(state), upTo)

\* The step is a transaction allocateRewards(i).
AllocationCall(i) ==
    /\ rewardsCall' # rewardsCall \/ intervalAllocations' # intervalAllocations
    /\ rewardsCall'.fn = "allocateRewards"
    /\ rewardsCall'.args = <<i>>

\* C34: allocating interval i while earlier intervals are unallocated
\* allocates every earlier interval first, in ascending order; the amounts
\* recorded, and the rewards left unallocated, are those of allocating the
\* intervals one at a time in ascending order; the amounts recorded before
\* stay; and an interval is allocated once: allocating an allocated
\* interval reverts with "Interval already allocated".
C34_RecursiveAllocationIsAscending ==
    [][\A i \in Intervals : AllocationCall(i) =>
          LET before == [unallocatedRewards |-> unallocatedRewards,
                         intervalAllocations |-> intervalAllocations]
              stepwise == AllocateAscending(before, i) IN
          IF i < Len(intervalAllocations)
          THEN /\ rewardsCall'.revert \in {"Interval already allocated",
                                          "Interval hasn't ended yet"}
               /\ _isFinished(i) => rewardsCall'.revert = "Interval already allocated"
               /\ UNCHANGED <<rewardsStorage, tokenBalance>>
          ELSE IF rewardsCall'.revert = ""
          THEN /\ Len(intervalAllocations') = i + 1
               /\ SubSeq(intervalAllocations', 1, Len(intervalAllocations))
                      = intervalAllocations
               /\ intervalAllocations' = stepwise.intervalAllocations
               /\ unallocatedRewards' = stepwise.unallocatedRewards
          ELSE /\ rewardsCall'.revert = "Interval hasn't ended yet"
               /\ UNCHANGED <<rewardsStorage, tokenBalance>>]_vars

\* Three intervals were allocated by one call, two of them with rewards.
C34_Witness ==
    /\ rewardsCall.fn = "allocateRewards"
    /\ rewardsCall.revert = ""
    /\ rewardsCall.args = <<2>>
    /\ Len(intervalAllocations) = 3
    /\ Cardinality({i \in 1..3 : intervalAllocations[i] > 0}) >= 2

(***************************************************************************)
(* The local chain (pkg/chain/local): keeps in memory, handlers of         *)
(* keep-created events and, per keep, of signature-requested events.       *)
(* CreateKeep is the code of LocalChain; the registration of handlers, the *)
(* submission of the public key and requestSignature are not part of the   *)
(* sources and follow the specification (Chain Facade, scenario 2) and the *)
(* tests of requestSignature.  A handler is called in a goroutine of its   *)
(* own: a call started is counted in `invoked`.                            *)
(***************************************************************************)
nonLocalVars == <<bcVars, scVars, subVars, tssVars, sessVars, sigVars, keepVars,
                  inVars, lcVars, bondVars, bondingVars, rewVars, hdVars, uniVars>>

\* Handler goroutines in the model.
MaxInvocations == 3

TotalInvoked == LET RECURSIVE Sum(_)
                    Sum(S) == IF S = {} THEN 0
                              ELSE LET i == CHOOSE x \in S : TRUE
                                   IN invoked[i] + Sum(S \ {i})
                IN Sum(Invocations)

\* go func(handler, event) { handler(event) }(handler, event) for each of
\* the handlers.
StartHandlers(handlers, keepAddress, event) ==
    /\ TotalInvoked + Cardinality(handlers) <= MaxInvocations
    /\ invoked' = [i \in Invocations |->
                      IF /\ i.handler \in handlers
                         /\ i.keepAddress = keepAddress
                         /\ i.event = event
                      THEN invoked[i] + 1 ELSE invoked[i]]

LocalReturns(fn, keepAddress, handler, event, err) ==
    localCall' = [fn |-> fn, keepAddress |-> keepAddress, handler |-> handler,
                  event |-> event, err |-> err]

\* if _, ok := c.keeps[keepAddress]; ok
KeepExists_Never(keepAddress) == FALSE
KeepExists(keepAddress) == localKeeps[keepAddress].exists

\* func (c *LocalChain) CreateKeep(keepAddress, members) error
CreateKeep(keepAddress, keepMembers) ==
    /\ IF KeepExists(keepAddress)
       THEN /\ LocalReturns("CreateKeep", keepAddress, 0, KeepCreatedEvent(keepMembers),
                            Errorf("keep already exists for address", keepAddress))
            /\ UNCHANGED <<localKeeps, keepCreatedHandlers, invoked>>
       ELSE /\ localKeeps' = [localKeeps EXCEPT ![keepAddress] =
                                 [exists |-> TRUE, signatureRequestedHandlers |-> {},
                                  publicKey |-> ""]]
            /\ StartHandlers(keepCreatedHandlers, keepAddress, KeepCreatedEvent(keepMembers))
            /\ LocalReturns("CreateKeep", keepAddress, 0, KeepCreatedEvent(keepMembers),
                            NoError)
            /\ UNCHANGED keepCreatedHandlers
    /\ UNCHANGED nonLocalVars

\* onKeepCreated(handler): the handler joins keepCreatedHandlers.
OnECDSAKeepCreated(handler) ==
    /\ handler \notin keepCreatedHandlers
    /\ keepCreatedHandlers' = keepCreatedHandlers \cup {handler}
    /\ LocalReturns("OnECDSAKeepCreated", 0, handler, NoEvent, NoError)
    /\ UNCHANGED <<localKeeps, invoked>>
    /\ UNCHANGED nonLocalVars

\* onSignatureRequested(keepAddress, handler): the handler joins the
\* handlers of the keep.
OnSignatureRequested(keepAddress, handler) ==
    /\ localKeeps[keepAddress].exists
    /\ handler \notin localKeeps[keepAddress].signatureRequestedHandlers
    /\ localKeeps' = [localKeeps EXCEPT
                         ![keepAddress].signatureRequestedHandlers = @ \cup {handler}]
    /\ LocalReturns("OnSignatureRequested", keepAddress, handler, NoEvent, NoError)
    /\ UNCHANGED <<keepCreatedHandlers, invoked>>
    /\ UNCHANGED nonLocalVars

\* submitKeepPublicKey(keepAddress, publicKey): the key of the keep is set.
SubmitKeepPublicKey(keepAddress) ==
    /\ localKeeps[keepAddress].exists
    /\ localKeeps[keepAddress].publicKey = ""
    /\ localKeeps' = [localKeeps EXCEPT ![keepAddress].publicKey = "keyA"]
    /\ LocalReturns("SubmitKeepPublicKey", keepAddress, 0, NoEvent, NoError)
    /\ UNCHANGED <<keepCreatedHandlers, invoked>>
    /\ UNCHANGED nonLocalVars

\* keep, ok := c.keeps[keepAddress] in requestSignature
FindKeep_Any(keepAddress) == TRUE
FindKeep(keepAddress) == localKeeps[keepAddress].exists

\* requestSignature(keepAddress, digest): an error for an address without a
\* keep, otherwise every signature-requested handler of the keep is called.
requestSignature(keepAddress, digest) ==
    /\ IF ~FindKeep(keepAddress)
       THEN /\ LocalReturns("requestSignature", keepAddress, 0,
                            SignatureRequestedEvent(digest),
                            Errorf("failed to find keep with address", keepAddress))
            /\ UNCHANGED <<localKeeps, keepCreatedHandlers, invoked>>
       ELSE /\ StartHandlers(localKeeps[keepAddress].signatureRequestedHandlers,
                             keepAddress, SignatureRequestedEvent(digest))
            /\ LocalReturns("requestSignature", keepAddress, 0,
                            SignatureRequestedEvent(digest), NoError)
            /\ UNCHANGED <<localKeeps, keepCreatedHandlers>>
    /\ UNCHANGED nonLocalVars

LocalNext ==
    \/ \E a \in KeepAddresses, m \in MemberSets : CreateKeep(a, m)
    \/ \E h \in HandlerIds : OnECDSAKeepCreated(h)
    \/ \E a \in KeepAddresses, h \in HandlerIds : OnSignatureRequested(a, h)
    \/ \E a \in KeepAddresses : SubmitKeepPublicKey(a)
    \/ \E a \in KeepAddresses, d \in LocalDigests : requestSignature(a, d)

LocalSpec == Init /\ [][LocalNext]_vars

(***************************************************************************)
(* Claims about the local chain.                                           *)
(***************************************************************************)
LocalCallOf(fn) == localCall' # localCall /\ localCall'.fn = fn

\* The handler goroutines a call started: one for each of the handlers,
\* with the address and the event, and no other.
StartedExactly(handlers, keepAddress, event) ==
    \A i \in Invocations :
        invoked'[i] - invoked[i] =
            IF i.handler \in handlers /\ i.keepAddress = keepAddress /\ i.event = event
            THEN 1 ELSE 0

\* C33: CreateKeep for an address that has a keep returns "keep already
\* exists for address [...]" and changes nothing: the record of the keep,
\* its handlers and public key, stays and no keep-created handler is
\* called.  For a new address it stores a keep with the empty public key
\* and calls every registered keep-created handler exactly once, with the
\* address and the member list.
C33_CreateKeepRejectsExisting ==
    [][LocalCallOf("CreateKeep") =>
          LET a == localCall'.keepAddress
          IN IF localKeeps[a].exists
             THEN /\ localCall'.err = Errorf("keep already exists for address", a)
                  /\ UNCHANGED <<localKeeps, keepCreatedHandlers, invoked>>
             ELSE /\ localCall'.err = NoError
                  /\ localKeeps'[a].exists /\ localKeeps'[a].publicKey = ""
                  /\ \A b \in KeepAddresses \ {a} : localKeeps'[b] = localKeeps[b]
                  /\ StartedExactly(keepCreatedHandlers, a, localCall'.event)
                  /\ UNCHANGED keepCreatedHandlers]_vars

\* CreateKeep was refused for a keep that has a public key and a handler,
\* after the creation of the keep called two keep-created handlers.
C33_Witness ==
    /\ localCall.fn = "CreateKeep"
    /\ localCall.err.text = "keep already exists for address"
    /\ localKeeps[localCall.keepAddress].publicKey = "keyA"
    /\ localKeeps[localCall.keepAddress].signatureRequestedHandlers # {}
    /\ \E m \in MemberSets :
          \A h \in HandlerIds :
              invoked[[handler |-> h, keepAddress |-> localCall.keepAddress,
                       event |-> KeepCreatedEvent(m)]] = 1

\* C31: a signature request for an address no keep was created at returns
\* the error "failed to find keep with address: [<address>]" and has no
\* other effect: no keep appears, no handler is called.
C31_RequestForUnknownKeepFails ==
    [][LocalCallOf("requestSignature") /\ ~localKeeps[localCall'.keepAddress].exists =>
          /\ localCall'.err = Errorf("failed to find keep with address",
                                     localCall'.keepAddress)
          /\ UNCHANGED <<localKeeps, keepCreatedHandlers, invoked>>]_vars

\* The request was refused on a chain that has handlers and another keep
\* with a handler of signature requests.
C31_Witness ==
    /\ localCall.fn = "requestSignature"
    /\ localCall.err = Errorf("failed to find keep with address", 1)
    /\ ~localKeeps[1].exists
    /\ keepCreatedHandlers # {}
    /\ localKeeps[2].exists /\ localKeeps[2].signatureRequestedHandlers # {}

(***************************************************************************)
(* The unicast channel of the local network provider (pkg/net/local).      *)
(* localProvider.UnicastChannelWith hands out the channel of               *)
(* unicastProvider; the channel itself is not part of the sources and is   *)
(* modelled from the specification of the Network Provider and from        *)
(* TestUnregisterHandler: Recv appends a handler, UnregisterRecv removes   *)
(* the handlers of a type, and a delivered message is passed to every      *)
(* handler of the channel, each in a goroutine of its own.                 *)
(***************************************************************************)
nonUniVars == <<bcVars, scVars, subVars, tssVars, sessVars, sigVars, keepVars,
                inVars, lcVars, bondVars, bondingVars, rewVars, hdVars, localVars>>

\* Messages delivered in the model.
MaxDeliveries == 2

UniReturns(fn, type, err) == uniCall' = [fn |-> fn, Type |-> type, err |-> err]

\* Recv(handler): the handler is appended to messageHandlers.  Handler
\* functions are numbered in the order of their registration.
Recv(handler, handlerType) ==
    /\ handler = Cardinality(recvLog) + 1
    /\ messageHandlers' = Append(messageHandlers, [Type |-> handlerType, Handler |-> handler])
    /\ recvLog' = recvLog \cup {[Type |-> handlerType, Handler |-> handler]}
    /\ recvAfterUnregister' = (recvAfterUnregister \/ unregistered # {})
    /\ UniReturns("Recv", handlerType, "")
    /\ UNCHANGED <<unregistered, handlersFired, deliveries>>
    /\ UNCHANGED nonUniVars

\* mh.Type == handlerType, the handlers UnregisterRecv removes
HasType_None(mh, handlerType) == FALSE
HasType(mh, handlerType) == mh.Type = handlerType

\* UnregisterRecv(handlerType): every handler of the type leaves
\* messageHandlers; the others keep their order.
UnregisterRecv(handlerType) ==
    /\ messageHandlers' = SelectSeq(messageHandlers, LAMBDA mh : ~HasType(mh, handlerType))
    /\ unregistered' = unregistered \cup {handlerType}
    /\ UniReturns("UnregisterRecv", handlerType, "")
    /\ UNCHANGED <<recvLog, recvAfterUnregister, handlersFired, deliveries>>
    /\ UNCHANGED nonUniVars

\* A message of the peer arrives: go handler.Handler(message) for every
\* handler of the channel.
DeliverMessage ==
    /\ deliveries < MaxDeliveries
    /\ deliveries' = deliveries + 1
    /\ handlersFired' = [h \in HandlerFuncs |->
                    IF \E i \in 1..Len(messageHandlers) : messageHandlers[i].Handler = h
                    THEN handlersFired[h] + 1 ELSE handlersFired[h]]
    /\ UniReturns("deliver", "", "")
    /\ UNCHANGED <<messageHandlers, recvLog, unregistered, recvAfterUnregister>>
    /\ UNCHANGED nonUniVars

UniNext ==
    \/ \E h \in HandlerFuncs, type \in HandlerTypes : Recv(h, type)
    \/ \E type \in HandlerTypes : UnregisterRecv(type)
    \/ DeliverMessage

UniSpec == Init /\ [][UniNext]_vars

HandlersOfType(type) ==
    {i \in 1..Len(messageHandlers) : messageHandlers[i].Type = type}

\* C32: with the handlers of types R registered by Recv and UnregisterRecv
\* then called for the types U, a delivered message starts exactly the
\* handlers whose type is in R and not in U, each once; and UnregisterRecv
\* for a type that has no handler returns no error and removes nothing.
C32_FiresRegisteredNotUnregistered ==
    [][/\ (deliveries' # deliveries /\ ~recvAfterUnregister) =>
              \A h \in HandlerFuncs :
                  handlersFired'[h] - handlersFired[h] =
                      IF \E r \in recvLog : r.Handler = h /\ r.Type \notin unregistered
                      THEN 1 ELSE 0
       /\ (unregistered' # unregistered /\ HandlersOfType(uniCall'.Type) = {}) =>
              uniCall'.err = "" /\ UNCHANGED messageHandlers]_vars

\* A message was delivered after three handlers, two of one type, were
\* registered and one registered and one unknown type unregistered: the two
\* handlers of the remaining type were started once, the third was not.
C32_Witness ==
    /\ deliveries = 1
    /\ ~recvAfterUnregister
    /\ {r.Type : r \in recvLog} = {"a", "b"}
    /\ Cardinality(recvLog) = 3
    /\ unregistered = {"a", "z"}
    /\ Len(messageHandlers) = 2
    /\ \A h \in HandlerFuncs :
          handlersFired[h] = IF \E r \in recvLog : r.Handler = h /\ r.Type = "b" THEN 1 ELSE 0

====
